---------------------------- MODULE Spec2Model ----------------------------
(***************************************************************************)
(* A model of git_load_tester: the load orchestrator of main.py (main,     *)
(* perform_clone, update_progress_display), the fetch loops of the two     *)
(* progress transports, the pkt-line codec, the ref advertisement parser   *)
(* and the request builder of protocol.py, and clone() of both transports. *)
(*                                                                         *)
(* The specifications of the module:                                       *)
(*   Spec        - one run of main(): the orchestrator thread, the         *)
(*                 progress renderer thread and the pool's workers.        *)
(*   FairSpec    - the same run without KeyboardInterrupt, under fair      *)
(*                 scheduling of the threads.                              *)
(*   SpecFetch   - one upload_pack call of a progress transport.           *)
(*   SpecCodec   - PktLine.encode followed by PktLine.parse on a payload.  *)
(*   SpecParse   - PktLine.parse on a prefix of a framed buffer.           *)
(*   SpecScan    - the loop of PktLine.parse, one iteration at a time, on  *)
(*                 buffers of any bytes.                                   *)
(*   SpecAdv     - RefAdvertisement.parse followed by default_ref.         *)
(*   SpecRequest - build_clone_request.                                    *)
(*   SpecClone   - one call of clone(): discover_refs, default_ref,        *)
(*                 build_clone_request, upload_pack, for both transports;  *)
(*                 the ssh transport reads its output chunk by chunk.      *)
(***************************************************************************)
EXTENDS Integers, Sequences, FiniteSets, TLC

VARIABLES
    \* ---- main(): arguments and locals (main.py:136-167)
    count,              \* args.count
    concurrency,        \* args.concurrency
    url,                \* class of args.url: "accepted", "ssh_invalid"
    pc,                 \* position of the orchestrator (main) thread
    futures,            \* the list futures: clone ids in submission order
    processed,          \* clone id -> times its future was handled by the loop
    total_bytes,
    successful,
    failed,
    interrupted,
    uncaught,           \* an exception other than KeyboardInterrupt left the try
    shutdown_called,    \* executor.shutdown(wait=True) was executed
    notice_printed,     \* "Interrupted by user. Exiting..." was printed
    summary_printed,    \* "====== Summary ======" was printed
    exit_code,          \* process exit status, NoExit while running
    \* ---- module globals (main.py:19-22)
    progress_lock,      \* set of threads holding the lock
    progress_data,      \* clone id -> <<bytes_received, status>>, "absent" if no key
    progress_enabled,
    progress_stop,
    \* ---- update_progress_display thread
    rpc,                \* position of the renderer thread
    \* ---- the pool's work items: perform_clone(i, url, is_ssh)
    opc,                \* clone id -> position inside perform_clone
    connected,          \* clone id -> its transport has opened a connection
    transport,          \* clone id -> transport instance it constructed (0: none)
    bytes_received,     \* clone id -> total_bytes of its upload_pack loop
    error,              \* clone id -> str(e) of the exception caught, or None
    outcome,            \* clone id -> state of its future
    \* ---- one upload_pack call of a progress transport (SpecFetch)
    variant,            \* "https": HttpsTransportWithProgress, "ssh": SshTransportWithProgress
    has_callback,       \* self.progress_callback is not None
    upc,                \* position inside upload_pack
    client_open,        \* ssh: the SSHClient of this call is connected
    buffer_has_flush,   \* ssh: b"0000" in buffer (the advertisement read so far)
    request_sent,       \* the request was posted / written to stdin
    write_shutdown,     \* ssh: stdin.channel.shutdown_write() was called
    received,           \* lengths of the response chunks read by the loop
    up_total_bytes,     \* the local total_bytes of upload_pack
    reported,           \* the values passed to progress_callback, in order
    up_return,          \* what upload_pack returned, NoReturn before
    \* ---- PktLine.encode then PktLine.parse (SpecCodec); bytes are 0..255
    payload,            \* the argument of PktLine.encode
    cpc,                \* "encode", "parse", "scan", "returned", "raised"
    data,               \* the argument of PktLine.parse
    offset,             \* parse's local offset (SpecScan: at the loop test)
    packets,            \* parse's local packets
    \* ---- PktLine.parse of a framed buffer (SpecParse)
    frames,             \* the frames the buffer was built from, in order
    cut,                \* the number of bytes of the buffer handed to parse
    \* ---- RefAdvertisement.parse then default_ref (SpecAdv)
    adv_packets,        \* the argument of RefAdvertisement.parse
    apc,                \* "parse", "default_ref", "returned"
    refs,               \* adv.refs: the (ref_name, sha) items in dict order
    capabilities,       \* adv.capabilities
    selected,           \* what default_ref returned
    \* ---- build_clone_request (SpecRequest)
    want_shas,          \* the argument of build_clone_request
    qpc,                \* "build", "returned"
    request,            \* the bytes build_clone_request returned
    \* ---- one call of clone() of either transport (SpecClone)
    c_variant,          \* "https" or "ssh"
    announcement,       \* https: the bytes the response has before the flush
    served,             \* the packets of the advertisement the server frames
    kpc,                \* "discover", "default_ref", "build", "upload",
                        \* "uploading", "returned", "raised"
    discovered,         \* discover_refs has returned
    c_refs,             \* refs.refs of clone(): items in dict order
    c_capabilities,     \* refs.capabilities of clone()
    c_default_ref,      \* default_ref of clone()
    c_request,          \* request of clone()
    sent,               \* the fetch requests that reached the server
    discoveries,        \* calls of discover_refs
    fetches,            \* calls of upload_pack
    sessions,           \* ssh: connections opened
    open_sessions,      \* ssh: connections open (connected and not yet closed)
    c_error,            \* the message of the exception that left clone()
    ssh_buffer,         \* ssh: the local buffer of discover_refs / upload_pack
    pack_len,           \* ssh: bytes the command writes after it got the request
    write_closed,       \* ssh: stdin.channel.shutdown_write() was called
    counted             \* ssh: the local total_bytes of upload_pack

mainVars == <<count, concurrency, url, pc, futures, processed, total_bytes,
              successful, failed, interrupted, uncaught, shutdown_called,
              notice_printed, summary_printed, exit_code>>
globalVars == <<progress_lock, progress_data, progress_enabled, progress_stop>>
renderVars == <<rpc>>
opVars == <<opc, connected, transport, bytes_received, error, outcome>>

fetchVars == <<variant, has_callback, upc, client_open, buffer_has_flush,
               request_sent, write_shutdown, received, up_total_bytes,
               reported, up_return>>

codecVars == <<payload, cpc, data, offset, packets, frames, cut>>

advVars == <<adv_packets, apc, refs, capabilities, selected>>

orchVars == <<mainVars, globalVars, renderVars, opVars>>
requestVars == <<want_shas, qpc, request>>
cloneVars == <<c_variant, announcement, served, kpc, discovered, c_refs,
               c_capabilities, c_default_ref, c_request, sent, discoveries,
               fetches, sessions, open_sessions, c_error, ssh_buffer,
               pack_len, write_closed, counted>>
vars == <<orchVars, fetchVars, codecVars, advVars, requestVars, cloneVars>>

\* What the actions of one specification leave alone.
nonOrchVars == <<fetchVars, codecVars, advVars, requestVars, cloneVars>>
nonFetchVars == <<orchVars, codecVars, advVars, requestVars, cloneVars>>
nonCodecVars == <<orchVars, fetchVars, advVars, requestVars, cloneVars>>
nonAdvVars == <<orchVars, fetchVars, codecVars, requestVars, cloneVars>>
nonRequestVars == <<orchVars, fetchVars, codecVars, advVars, cloneVars>>
nonCloneVars == <<orchVars, fetchVars, codecVars, advVars, requestVars>>

---------------------------------------------------------------------------
\* Bounds of the model.
MaxCount == 2
MaxConcurrency == 2
MaxBytes == 2
MaxFetchChunks == 3
MaxFetchChunkLen == 2
MaxPayloadLen == 4
MaxFrames == 3
MaxPackets == 3
MaxWants == 4
MaxServed == 2

Ids == 1..MaxCount

\* Python's None, as the third component of perform_clone's tuple.
None == "<None>"
\* exit_code before the process has exited (no exit status is negative).
NoExit == 0 - 1
\* up_return before upload_pack has returned (no byte count is negative).
NoReturn == 0 - 1
\* progress_data has no key for the clone id.
Absent == <<0, "absent">>

\* str(e) of the exceptions a clone can raise.  paramiko raises EOFError()
\* with no arguments when the peer closes the connection: its str() is "".
NoRefsMessage == "No refs found in repository"
InvalidUrlMessage == "Invalid SSH URL format"
NetworkMessages == {"", "Connection refused"}

MainThread == <<"main", 0>>
RendererThread == <<"renderer", 0>>
WorkerThread(clone_id) == <<"worker", clone_id>>

\* Python truthiness of the error component: None and '' are falsy.
Truthy(e) == e # None /\ e # ""

\* An unfinished future, and the two ways a future finishes.
Pending == [kind |-> "pending", clone_id |-> 0, bytes_received |-> 0, error |-> None]
Returned(clone_id, n, e) ==
    [kind |-> "result", clone_id |-> clone_id, bytes_received |-> n, error |-> e]
Raised(clone_id, e) ==
    [kind |-> "exception", clone_id |-> clone_id, bytes_received |-> 0, error |-> e]


---------------------------------------------------------------------------
\* A pool as large as the number of work items.
unbounded_workers == MaxCount

\* ThreadPoolExecutor(max_workers=args.concurrency): the pool never runs
\* more than max_workers work items at a time.
max_workers == concurrency

\* One transport object shared by every call.
SharedTransport(clone_id) == 1

\* The transport object perform_clone constructs is a fresh local object of
\* the call; it is named here by the call that allocated it.
NewTransport(clone_id) == clone_id

\* Positions of perform_clone at which the work item is running on a worker.
Started(i) == opc[i] \notin {"unsubmitted", "queued", "done"}
Running == {i \in Ids : Started(i)}

\* The process is alive: neither os._exit nor a return/raise of main happened.
Alive == exit_code = NoExit

\* The variables of the other specifications while this one runs.
FetchIdle ==
    /\ variant = "https"
    /\ has_callback = FALSE
    /\ upc = "idle"
    /\ client_open = FALSE
    /\ buffer_has_flush = FALSE
    /\ request_sent = FALSE
    /\ write_shutdown = FALSE
    /\ received = <<>>
    /\ up_total_bytes = 0
    /\ reported = <<>>
    /\ up_return = NoReturn

CodecIdle ==
    /\ payload = <<>>
    /\ cpc = "idle"
    /\ data = <<>>
    /\ offset = 0
    /\ packets = <<>>
    /\ frames = <<>>
    /\ cut = 0

AdvIdle ==
    /\ adv_packets = <<>>
    /\ apc = "idle"
    /\ refs = <<>>
    /\ capabilities = <<>>
    /\ selected = <<>>

RequestIdle ==
    /\ want_shas = <<>>
    /\ qpc = "idle"
    /\ request = <<>>

CloneIdle ==
    /\ c_variant = "https"
    /\ announcement = <<>>
    /\ served = <<>>
    /\ kpc = "idle"
    /\ discovered = FALSE
    /\ c_refs = <<>>
    /\ c_capabilities = <<>>
    /\ c_default_ref = <<>>
    /\ c_request = <<>>
    /\ sent = <<>>
    /\ discoveries = 0
    /\ fetches = 0
    /\ sessions = 0
    /\ open_sessions = 0
    /\ c_error = None
    /\ ssh_buffer = <<>>
    /\ pack_len = 0
    /\ write_closed = FALSE
    /\ counted = 0

OrchIdle ==
    /\ count = 0
    /\ concurrency = 1
    /\ url = "accepted"
    /\ progress_enabled = FALSE
    /\ pc = "idle"
    /\ futures = <<>>
    /\ processed = [i \in Ids |-> 0]
    /\ total_bytes = 0
    /\ successful = 0
    /\ failed = 0
    /\ interrupted = FALSE
    /\ uncaught = FALSE
    /\ shutdown_called = FALSE
    /\ notice_printed = FALSE
    /\ summary_printed = FALSE
    /\ exit_code = NoExit
    /\ progress_lock = {}
    /\ progress_data = [i \in Ids |-> Absent]
    /\ progress_stop = FALSE
    /\ rpc = "unstarted"
    /\ opc = [i \in Ids |-> "unsubmitted"]
    /\ connected = [i \in Ids |-> FALSE]
    /\ transport = [i \in Ids |-> 0]
    /\ bytes_received = [i \in Ids |-> 0]
    /\ error = [i \in Ids |-> None]
    /\ outcome = [i \in Ids |-> Pending]

Init ==
    /\ count \in 0..MaxCount
    /\ concurrency \in 1..MaxConcurrency
    /\ url \in {"accepted", "ssh_invalid"}
    /\ progress_enabled \in BOOLEAN
    /\ pc = "start"
    /\ futures = <<>>
    /\ processed = [i \in Ids |-> 0]
    /\ total_bytes = 0
    /\ successful = 0
    /\ failed = 0
    /\ interrupted = FALSE
    /\ uncaught = FALSE
    /\ shutdown_called = FALSE
    /\ notice_printed = FALSE
    /\ summary_printed = FALSE
    /\ exit_code = NoExit
    /\ progress_lock = {}
    /\ progress_data = [i \in Ids |-> Absent]
    /\ progress_stop = FALSE
    /\ rpc = "unstarted"
    /\ opc = [i \in Ids |-> "unsubmitted"]
    /\ connected = [i \in Ids |-> FALSE]
    /\ transport = [i \in Ids |-> 0]
    /\ bytes_received = [i \in Ids |-> 0]
    /\ error = [i \in Ids |-> None]
    /\ outcome = [i \in Ids |-> Pending]
    /\ FetchIdle
    /\ CodecIdle
    /\ AdvIdle
    /\ RequestIdle
    /\ CloneIdle

---------------------------------------------------------------------------
\* The orchestrator thread: main().

\* main.py:159-167: start the renderer thread if --progress, create the pool.
StartRun ==
    /\ pc = "start"
    /\ pc' = "submit"
    /\ IF progress_enabled
         THEN progress_stop' = FALSE /\ rpc' = "loop"
         ELSE UNCHANGED <<progress_stop, rpc>>
    /\ UNCHANGED <<count, concurrency, url, futures, processed, total_bytes,
                   successful, failed, interrupted, uncaught, shutdown_called,
                   notice_printed, summary_printed, exit_code>>
    /\ UNCHANGED <<progress_lock, progress_data, progress_enabled>>
    /\ UNCHANGED opVars
    /\ UNCHANGED nonOrchVars

\* main.py:171-173: one iteration of the submit loop, or its end.
Submit ==
    /\ pc = "submit"
    /\ IF Len(futures) < count
         THEN /\ futures' = Append(futures, Len(futures) + 1)
              /\ opc' = [opc EXCEPT ![Len(futures) + 1] = "queued"]
              /\ pc' = "submit"
         ELSE /\ pc' = "await"
              /\ UNCHANGED <<futures, opc>>
    /\ UNCHANGED <<count, concurrency, url, processed, total_bytes,
                   successful, failed, interrupted, uncaught, shutdown_called,
                   notice_printed, summary_printed, exit_code>>
    /\ UNCHANGED <<globalVars, renderVars>>
    /\ UNCHANGED <<connected, transport, bytes_received, error, outcome>>
    /\ UNCHANGED nonOrchVars

\* main.py:176-186: as_completed yields a finished future that it has not
\* yielded yet; future.result() re-raises what the work item raised.
ProcessResult(f) ==
    /\ pc = "await"
    /\ f \in 1..Len(futures)
    /\ processed[f] = 0
    /\ outcome[f].kind # "pending"
    /\ processed' = [processed EXCEPT ![f] = @ + 1]
    /\ IF outcome[f].kind = "exception"
         THEN /\ uncaught' = TRUE
              /\ pc' = "finally"
              /\ UNCHANGED <<total_bytes, successful, failed>>
         ELSE /\ IF Truthy(outcome[f].error)
                   THEN /\ failed' = failed + 1
                        /\ UNCHANGED <<total_bytes, successful>>
                   ELSE /\ total_bytes' = total_bytes + outcome[f].bytes_received
                        /\ successful' = successful + 1
                        /\ UNCHANGED failed
              /\ UNCHANGED <<uncaught, pc>>
    /\ UNCHANGED <<count, concurrency, url, futures, interrupted,
                   shutdown_called, notice_printed, summary_printed, exit_code>>
    /\ UNCHANGED <<globalVars, renderVars, opVars>>
    /\ UNCHANGED nonOrchVars

\* as_completed is exhausted: every submitted future was yielded.
AwaitDone ==
    /\ pc = "await"
    /\ \A f \in 1..Len(futures) : processed[f] > 0
    /\ pc' = "finally"
    /\ UNCHANGED <<count, concurrency, url, futures, processed, total_bytes,
                   successful, failed, interrupted, uncaught, shutdown_called,
                   notice_printed, summary_printed, exit_code>>
    /\ UNCHANGED <<globalVars, renderVars, opVars>>
    /\ UNCHANGED nonOrchVars

\* main.py:207-210: the finally block.  shutdown(wait=True) returns when no
\* work item is queued or running any more.  An exception that is not a
\* KeyboardInterrupt leaves main() after the block: the interpreter prints
\* the traceback and exits with status 1.
Finally ==
    /\ pc = "finally"
    /\ IF ~interrupted
         THEN /\ \A i \in 1..Len(futures) : opc[i] = "done"
              /\ shutdown_called' = TRUE
         ELSE UNCHANGED shutdown_called
    /\ IF uncaught
         THEN pc' = "crashed" /\ exit_code' = 1
         ELSE /\ pc' = IF progress_enabled THEN "stop_progress" ELSE "report"
              /\ UNCHANGED exit_code
    /\ UNCHANGED <<count, concurrency, url, futures, processed, total_bytes,
                   successful, failed, interrupted, uncaught,
                   notice_printed, summary_printed>>
    /\ UNCHANGED <<globalVars, renderVars, opVars>>
    /\ UNCHANGED nonOrchVars


\* The assignment of main.py:214 without its effect on the module global (as
\* it is when main() does not declare progress_stop global).
StopProgressSkipsFlag ==
    /\ pc = "stop_progress"
    /\ pc' = "clear_lock"
    /\ UNCHANGED <<count, concurrency, url, futures, processed, total_bytes,
                   successful, failed, interrupted, uncaught, shutdown_called,
                   notice_printed, summary_printed, exit_code>>
    /\ UNCHANGED <<globalVars, renderVars, opVars>>
    /\ UNCHANGED nonOrchVars

\* main.py:213-215: progress_stop = True; join(timeout=1) returns when the
\* renderer ended or the timeout passed, so it never blocks the step.
StopProgress ==
    /\ pc = "stop_progress"
    /\ progress_stop' = TRUE
    /\ pc' = "clear_lock"
    /\ UNCHANGED <<count, concurrency, url, futures, processed, total_bytes,
                   successful, failed, interrupted, uncaught, shutdown_called,
                   notice_printed, summary_printed, exit_code>>
    /\ UNCHANGED <<progress_lock, progress_data, progress_enabled>>
    /\ UNCHANGED <<renderVars, opVars>>
    /\ UNCHANGED nonOrchVars

\* main.py:217: with progress_lock (acquire).
ClearAcquire ==
    /\ pc = "clear_lock"
    /\ progress_lock = {}
    /\ progress_lock' = {MainThread}
    /\ pc' = "clear_locked"
    /\ UNCHANGED <<count, concurrency, url, futures, processed, total_bytes,
                   successful, failed, interrupted, uncaught, shutdown_called,
                   notice_printed, summary_printed, exit_code>>
    /\ UNCHANGED <<progress_data, progress_enabled, progress_stop>>
    /\ UNCHANGED <<renderVars, opVars>>
    /\ UNCHANGED nonOrchVars

\* main.py:218-221: read progress_data, write the newlines, release.
ClearLines ==
    /\ pc = "clear_locked"
    /\ progress_lock' = progress_lock \ {MainThread}
    /\ pc' = "report"
    /\ UNCHANGED <<count, concurrency, url, futures, processed, total_bytes,
                   successful, failed, interrupted, uncaught, shutdown_called,
                   notice_printed, summary_printed, exit_code>>
    /\ UNCHANGED <<progress_data, progress_enabled, progress_stop>>
    /\ UNCHANGED <<renderVars, opVars>>
    /\ UNCHANGED nonOrchVars

\* main.py:223-237: the summary.  The last line divides by args.count, which
\* raises ZeroDivisionError for --count 0 after the other lines were printed.
Report ==
    /\ pc = "report"
    /\ summary_printed' = TRUE
    /\ IF count = 0
         THEN pc' = "crashed" /\ exit_code' = 1
         ELSE pc' = "done" /\ exit_code' = IF failed = 0 THEN 0 ELSE 1
    /\ UNCHANGED <<count, concurrency, url, futures, processed, total_bytes,
                   successful, failed, interrupted, uncaught, shutdown_called,
                   notice_printed>>
    /\ UNCHANGED <<globalVars, renderVars, opVars>>
    /\ UNCHANGED nonOrchVars

\* main.py:188-189: KeyboardInterrupt is delivered to the main thread while
\* it is inside the try block (submitting or awaiting).
Interrupt ==
    /\ pc \in {"submit", "await"}
    /\ interrupted' = TRUE
    /\ pc' = IF progress_enabled THEN "int_stop" ELSE "int_notice"
    /\ UNCHANGED <<count, concurrency, url, futures, processed, total_bytes,
                   successful, failed, uncaught, shutdown_called,
                   notice_printed, summary_printed, exit_code>>
    /\ UNCHANGED <<globalVars, renderVars, opVars>>
    /\ UNCHANGED nonOrchVars

\* main.py:193-194: progress_stop = True; join(timeout=0.5).
IntStopProgress ==
    /\ pc = "int_stop"
    /\ progress_stop' = TRUE
    /\ pc' = "int_lock"
    /\ UNCHANGED <<count, concurrency, url, futures, processed, total_bytes,
                   successful, failed, interrupted, uncaught, shutdown_called,
                   notice_printed, summary_printed, exit_code>>
    /\ UNCHANGED <<progress_lock, progress_data, progress_enabled>>
    /\ UNCHANGED <<renderVars, opVars>>
    /\ UNCHANGED nonOrchVars

\* main.py:196: with progress_lock (acquire).
IntAcquire ==
    /\ pc = "int_lock"
    /\ progress_lock = {}
    /\ progress_lock' = {MainThread}
    /\ pc' = "int_locked"
    /\ UNCHANGED <<count, concurrency, url, futures, processed, total_bytes,
                   successful, failed, interrupted, uncaught, shutdown_called,
                   notice_printed, summary_printed, exit_code>>
    /\ UNCHANGED <<progress_data, progress_enabled, progress_stop>>
    /\ UNCHANGED <<renderVars, opVars>>
    /\ UNCHANGED nonOrchVars

\* main.py:197-200: read progress_data, write the newlines, release.
IntClearLines ==
    /\ pc = "int_locked"
    /\ progress_lock' = progress_lock \ {MainThread}
    /\ pc' = "int_notice"
    /\ UNCHANGED <<count, concurrency, url, futures, processed, total_bytes,
                   successful, failed, interrupted, uncaught, shutdown_called,
                   notice_printed, summary_printed, exit_code>>
    /\ UNCHANGED <<progress_data, progress_enabled, progress_stop>>
    /\ UNCHANGED <<renderVars, opVars>>
    /\ UNCHANGED nonOrchVars

\* main.py:202-203: the interruption notice.
IntNotice ==
    /\ pc = "int_notice"
    /\ notice_printed' = TRUE
    /\ pc' = "int_exit"
    /\ UNCHANGED <<count, concurrency, url, futures, processed, total_bytes,
                   successful, failed, interrupted, uncaught, shutdown_called,
                   summary_printed, exit_code>>
    /\ UNCHANGED <<globalVars, renderVars, opVars>>
    /\ UNCHANGED nonOrchVars

\* The handler without its last statement: control leaves the except block,
\* runs the finally block and goes on after the try statement.
IntExitFallsThrough ==
    /\ pc = "int_exit"
    /\ pc' = "finally"
    /\ UNCHANGED <<count, concurrency, url, futures, processed, total_bytes,
                   successful, failed, interrupted, uncaught, shutdown_called,
                   notice_printed, summary_printed, exit_code>>
    /\ UNCHANGED <<globalVars, renderVars, opVars>>
    /\ UNCHANGED nonOrchVars

\* main.py:206: os._exit(130) ends the process at once: no finally block,
\* no thread is joined, every other thread stops with it.
IntExit ==
    /\ pc = "int_exit"
    /\ pc' = "exited"
    /\ exit_code' = 130
    /\ UNCHANGED <<count, concurrency, url, futures, processed, total_bytes,
                   successful, failed, interrupted, uncaught, shutdown_called,
                   notice_printed, summary_printed>>
    /\ UNCHANGED <<globalVars, renderVars, opVars>>
    /\ UNCHANGED nonOrchVars

---------------------------------------------------------------------------
\* The renderer thread: update_progress_display().

\* main.py:29: the loop test.
RenderTest ==
    /\ Alive
    /\ rpc = "loop"
    /\ rpc' = IF progress_stop THEN "ended" ELSE "lock"
    /\ UNCHANGED <<mainVars, globalVars, opVars>>
    /\ UNCHANGED nonOrchVars

\* main.py:30: with progress_lock (acquire).
RenderAcquire ==
    /\ Alive
    /\ rpc = "lock"
    /\ progress_lock = {}
    /\ progress_lock' = {RendererThread}
    /\ rpc' = "locked"
    /\ UNCHANGED <<mainVars, progress_data, progress_enabled, progress_stop,
                   opVars>>
    /\ UNCHANGED nonOrchVars

\* main.py:31-52: read progress_data, draw one line per key if there is any,
\* release, sleep.  The frame goes to the terminal; no variable keeps it.
RenderDraw ==
    /\ Alive
    /\ rpc = "locked"
    /\ progress_lock' = progress_lock \ {RendererThread}
    /\ rpc' = "loop"
    /\ UNCHANGED <<mainVars, progress_data, progress_enabled, progress_stop,
                   opVars>>
    /\ UNCHANGED nonOrchVars


---------------------------------------------------------------------------
\* The pool's workers: perform_clone(clone_id, url, is_ssh).

\* Positions of perform_clone that wait for progress_lock, and the position
\* inside the with block each one leads to.
LockPositions == {"init", "callback", "complete", "fail"}
Locked(p) == CASE p = "init" -> "init_locked"
               [] p = "callback" -> "callback_locked"
               [] p = "complete" -> "complete_locked"
               [] p = "fail" -> "fail_locked"
LockedPositions == {Locked(p) : p \in LockPositions}

\* main.py:100-104: the except clause turns the exception into the tuple
\* (clone_id, 0, str(e)).
ExceptionEscapes(clone_id, e) == Raised(clone_id, e)
ExceptOutcome(clone_id, e) == Returned(clone_id, 0, e)

\* A pool thread takes the next work item off the queue (FIFO); the pool has
\* max_workers threads, so an item waits while that many are running.
Pickup(i) ==
    /\ Alive
    /\ opc[i] = "queued"
    /\ \A j \in 1..(i - 1) : opc[j] # "queued"
    /\ Cardinality(Running) < max_workers
    /\ opc' = [opc EXCEPT ![i] = IF progress_enabled THEN "init" ELSE "clone"]
    /\ UNCHANGED <<mainVars, globalVars, renderVars>>
    /\ UNCHANGED <<connected, transport, bytes_received, error, outcome>>
    /\ UNCHANGED nonOrchVars

\* A worker step that only moves on without taking the lock.
WorkerSkipsLock(i) ==
    /\ Alive
    /\ opc[i] \in LockPositions
    /\ opc' = [opc EXCEPT ![i] = Locked(@)]
    /\ UNCHANGED <<mainVars, globalVars, renderVars>>
    /\ UNCHANGED <<connected, transport, bytes_received, error, outcome>>
    /\ UNCHANGED nonOrchVars

\* main.py:71, 79, 88, 96, 102: with progress_lock (acquire).
WorkerAcquire(i) ==
    /\ Alive
    /\ opc[i] \in LockPositions
    /\ progress_lock = {}
    /\ progress_lock' = {WorkerThread(i)}
    /\ opc' = [opc EXCEPT ![i] = Locked(@)]
    /\ UNCHANGED <<mainVars, progress_data, progress_enabled, progress_stop>>
    /\ UNCHANGED renderVars
    /\ UNCHANGED <<connected, transport, bytes_received, error, outcome>>
    /\ UNCHANGED nonOrchVars

\* main.py:72: progress_data[clone_id] = (0, "starting"); release.
InitWrite(i) ==
    /\ Alive
    /\ opc[i] = "init_locked"
    /\ progress_data' = [progress_data EXCEPT ![i] = <<0, "starting">>]
    /\ progress_lock' = progress_lock \ {WorkerThread(i)}
    /\ opc' = [opc EXCEPT ![i] = "clone"]
    /\ UNCHANGED <<mainVars, progress_enabled, progress_stop, renderVars>>
    /\ UNCHANGED <<connected, transport, bytes_received, error, outcome>>
    /\ UNCHANGED nonOrchVars

\* perform_clone returns its tuple and the future is done.  Nothing shared
\* is touched between the end of the last with block and the return, so the
\* return is part of the step that ends the work item.
Finish(i, result) ==
    /\ outcome' = [outcome EXCEPT ![i] = result]
    /\ opc' = [opc EXCEPT ![i] = "done"]

\* The exception e is raised inside the try block of perform_clone
\* (main.py:100-104).  The locals of upload_pack are gone with its frame.
Raise(i, e) ==
    /\ bytes_received' = [bytes_received EXCEPT ![i] = 0]
    /\ error' = [error EXCEPT ![i] = e]
    /\ IF progress_enabled
         THEN /\ opc' = [opc EXCEPT ![i] = "fail"]
              /\ UNCHANGED outcome
         ELSE Finish(i, ExceptOutcome(i, e))

\* main.py:74-93 up to the first chunk: construct the transport, then
\* transport.clone(): discover_refs, default_ref, build_clone_request and the
\* start of upload_pack.  None of it touches state shared with other threads.
CloneBegin(i) ==
    /\ Alive
    /\ opc[i] = "clone"
    /\ \/ \* SshTransport.__init__ raises ValueError (ssh_transport.py:22)
          /\ url = "ssh_invalid"
          /\ Raise(i, InvalidUrlMessage)
          /\ UNCHANGED <<connected, transport>>
       \/ \* discover_refs raises (connect, status, read)
          /\ url # "ssh_invalid"
          /\ transport' = [transport EXCEPT ![i] = NewTransport(i)]
          /\ connected' = [connected EXCEPT ![i] = TRUE]
          /\ \E e \in NetworkMessages : Raise(i, e)
       \/ \* default_ref returns None: clone raises "No refs found"
          /\ url # "ssh_invalid"
          /\ transport' = [transport EXCEPT ![i] = NewTransport(i)]
          /\ connected' = [connected EXCEPT ![i] = TRUE]
          /\ Raise(i, NoRefsMessage)
       \/ \* upload_pack raises before its read loop (connect, post, status)
          /\ url # "ssh_invalid"
          /\ transport' = [transport EXCEPT ![i] = NewTransport(i)]
          /\ connected' = [connected EXCEPT ![i] = TRUE]
          /\ \E e \in NetworkMessages : Raise(i, e)
       \/ \* upload_pack reaches its read loop
          /\ url # "ssh_invalid"
          /\ transport' = [transport EXCEPT ![i] = NewTransport(i)]
          /\ connected' = [connected EXCEPT ![i] = TRUE]
          /\ opc' = [opc EXCEPT ![i] = "reading"]
          /\ UNCHANGED <<error, bytes_received, outcome>>
    /\ UNCHANGED <<mainVars, globalVars, renderVars>>
    /\ UNCHANGED nonOrchVars

\* upload_pack's loop reads one chunk: total_bytes += len(chunk), then the
\* progress callback is called (https_transport_progress.py:40-45,
\* ssh_transport_progress.py:52-60); it does nothing unless progress_enabled.
ReadChunk(i) ==
    /\ Alive
    /\ opc[i] = "reading"
    /\ \E n \in 1..(MaxBytes - bytes_received[i]) :
          bytes_received' = [bytes_received EXCEPT ![i] = @ + n]
    /\ opc' = [opc EXCEPT ![i] = IF progress_enabled THEN "callback" ELSE "reading"]
    /\ UNCHANGED <<mainVars, globalVars, renderVars>>
    /\ UNCHANGED <<connected, transport, error, outcome>>
    /\ UNCHANGED nonOrchVars

\* main.py:80, 89: progress_data[clone_id] = (bytes_received, "downloading").
CallbackWrite(i) ==
    /\ Alive
    /\ opc[i] = "callback_locked"
    /\ progress_data' = [progress_data EXCEPT ![i] = <<bytes_received[i], "downloading">>]
    /\ progress_lock' = progress_lock \ {WorkerThread(i)}
    /\ opc' = [opc EXCEPT ![i] = "reading"]
    /\ UNCHANGED <<mainVars, progress_enabled, progress_stop, renderVars>>
    /\ UNCHANGED <<connected, transport, bytes_received, error, outcome>>
    /\ UNCHANGED nonOrchVars

\* The response is exhausted: upload_pack and clone return total_bytes
\* (main.py:93-99).
ReadEnd(i) ==
    /\ Alive
    /\ opc[i] = "reading"
    /\ IF progress_enabled
         THEN /\ opc' = [opc EXCEPT ![i] = "complete"]
              /\ UNCHANGED outcome
         ELSE Finish(i, Returned(i, bytes_received[i], None))
    /\ UNCHANGED <<mainVars, globalVars, renderVars>>
    /\ UNCHANGED <<connected, transport, bytes_received, error>>
    /\ UNCHANGED nonOrchVars

\* A read of the response raises (connection reset, timeout).
ReadError(i) ==
    /\ Alive
    /\ opc[i] = "reading"
    /\ \E e \in NetworkMessages : Raise(i, e)
    /\ UNCHANGED <<mainVars, globalVars, renderVars>>
    /\ UNCHANGED <<connected, transport>>
    /\ UNCHANGED nonOrchVars

\* The last write of a successful clone leaves the phase at "downloading".
CompleteWriteKeepsPhase(i) ==
    /\ Alive
    /\ opc[i] = "complete_locked"
    /\ progress_data' = [progress_data EXCEPT ![i] = <<bytes_received[i], "downloading">>]
    /\ progress_lock' = progress_lock \ {WorkerThread(i)}
    /\ Finish(i, Returned(i, bytes_received[i], None))
    /\ UNCHANGED <<mainVars, progress_enabled, progress_stop, renderVars>>
    /\ UNCHANGED <<connected, transport, bytes_received, error>>
    /\ UNCHANGED nonOrchVars

\* main.py:97-99: progress_data[clone_id] = (bytes_received, "complete");
\* release; return (clone_id, bytes_received, None).
CompleteWrite(i) ==
    /\ Alive
    /\ opc[i] = "complete_locked"
    /\ progress_data' = [progress_data EXCEPT ![i] = <<bytes_received[i], "complete">>]
    /\ progress_lock' = progress_lock \ {WorkerThread(i)}
    /\ Finish(i, Returned(i, bytes_received[i], None))
    /\ UNCHANGED <<mainVars, progress_enabled, progress_stop, renderVars>>
    /\ UNCHANGED <<connected, transport, bytes_received, error>>
    /\ UNCHANGED nonOrchVars

\* main.py:103-104: progress_data[clone_id] = (0, "failed: ..."); release;
\* return (clone_id, 0, str(e)).
FailWrite(i) ==
    /\ Alive
    /\ opc[i] = "fail_locked"
    /\ progress_data' = [progress_data EXCEPT ![i] = <<0, "failed">>]
    /\ progress_lock' = progress_lock \ {WorkerThread(i)}
    /\ Finish(i, ExceptOutcome(i, error[i]))
    /\ UNCHANGED <<mainVars, progress_enabled, progress_stop, renderVars>>
    /\ UNCHANGED <<connected, transport, bytes_received, error>>
    /\ UNCHANGED nonOrchVars

---------------------------------------------------------------------------
Worker(i) ==
    \/ Pickup(i)
    \/ WorkerAcquire(i)
    \/ InitWrite(i)
    \/ CloneBegin(i)
    \/ ReadChunk(i)
    \/ CallbackWrite(i)
    \/ ReadEnd(i)
    \/ ReadError(i)
    \/ CompleteWrite(i)
    \/ FailWrite(i)

Renderer == RenderTest \/ RenderAcquire \/ RenderDraw

Main ==
    \/ StartRun
    \/ Submit
    \/ \E f \in Ids : ProcessResult(f)
    \/ AwaitDone
    \/ Finally
    \/ StopProgress
    \/ ClearAcquire
    \/ ClearLines
    \/ Report
    \/ Interrupt
    \/ IntStopProgress
    \/ IntAcquire
    \/ IntClearLines
    \/ IntNotice
    \/ IntExit

Next == Main \/ Renderer \/ \E i \in Ids : Worker(i)

Spec == Init /\ [][Next]_vars


---------------------------------------------------------------------------
\* Properties of the orchestrator (Spec).

RECURSIVE SumOver(_, _)
SumOver(f, S) ==
    IF S = {} THEN 0
    ELSE LET x == CHOOSE y \in S : TRUE IN f[x] + SumOver(f, S \ {x})

\* The clone operations of the run whose clone raised, and those that did not.
Errored == {i \in 1..count : error[i] # None}
Succeeded == {i \in 1..count : opc[i] = "done" /\ error[i] = None}
SuccessBytes == SumOver([i \in Ids |-> outcome[i].bytes_received], Succeeded)

\* main() has returned.
Returns == pc = "done"

\* C1: when main reaches the end of the final report after N operations of
\* which K raised (with any message, the empty one too), successful = N - K,
\* failed = K and total_bytes is the sum of the bytes of the successful ones.
C1_Aggregation ==
    Returns =>
        /\ successful = count - Cardinality(Errored)
        /\ failed = Cardinality(Errored)
        /\ total_bytes = SuccessBytes

\* C2: an exception raised in a clone is caught in its worker and returned
\* as the outcome (clone_id, 0, str(e)); no future ever holds an exception,
\* nothing reaches the orchestrator loop, no future is handled twice, and at
\* the final report every operation has run to its end, each was handled
\* once and successful + failed = count.
C2_ErrorIsolation ==
    /\ ~uncaught
    /\ \A i \in Ids :
          /\ outcome[i].kind # "exception"
          /\ processed[i] <= 1
          /\ (opc[i] = "done" /\ error[i] # None) => outcome[i] = Returned(i, 0, error[i])
    /\ summary_printed =>
          /\ \A i \in 1..count : opc[i] = "done" /\ processed[i] = 1
          /\ successful + failed = count

\* C2 witness: the final report of a run in which one clone raised and a
\* sibling downloaded bytes.
C2_Witness ==
    /\ Returns
    /\ \E i, j \in 1..count :
          /\ error[i] # None
          /\ error[j] = None /\ outcome[j].bytes_received > 0

\* The submit loop has finished without an interrupt.
Dispatched == ~interrupted /\ pc \notin {"start", "submit"}

\* C3: the k-th submitted operation carries the id k, never more than count
\* are submitted and exactly count once the submit loop is over, and no two
\* operations use the same transport instance.
C3_Dispatch ==
    /\ Len(futures) <= count
    /\ \A k \in 1..Len(futures) : futures[k] = k
    /\ \A i \in Ids : (opc[i] # "unsubmitted") <=> (i \in 1..Len(futures))
    /\ Dispatched => Len(futures) = count
    /\ \A i, j \in Ids :
          (i # j /\ transport[i] # 0 /\ transport[j] # 0) => transport[i] # transport[j]

\* C3 witness: all of two operations submitted and both hold a transport.
C3_Witness ==
    /\ Dispatched
    /\ Len(futures) = MaxCount
    /\ \A i \in Ids : transport[i] # 0

\* C4: at most concurrency operations are started and not yet finished, and
\* an operation no worker has picked up has opened no connection, read no
\* byte, built no transport and has no progress_data entry.
C4_BoundedPool ==
    /\ Cardinality(Running) <= concurrency
    /\ \A i \in Ids :
          opc[i] \in {"unsubmitted", "queued"} =>
              /\ ~connected[i]
              /\ transport[i] = 0
              /\ bytes_received[i] = 0
              /\ outcome[i] = Pending
              /\ progress_data[i] = Absent

\* C4 witness: the pool is full, with a connection open, and an operation
\* is waiting in the queue.
C4_Witness ==
    /\ Cardinality(Running) = concurrency
    /\ \E i \in Running : connected[i]
    /\ \E i \in Ids : opc[i] = "queued"

\* Positions of the KeyboardInterrupt handler.
HandlerPositions == {"int_stop", "int_lock", "int_locked", "int_notice", "int_exit"}

\* C5 as stated: after an interrupt the stop flag is set, the notice is
\* printed and the process exits with 130, without the pool's shutdown and
\* without a summary.
C5_AsStated ==
    pc = "exited" =>
        /\ progress_stop
        /\ notice_printed
        /\ exit_code = 130
        /\ ~shutdown_called
        /\ ~summary_printed

\* C5, amended: once interrupted the orchestrator is in the handler or has
\* exited; no handler step waits for a work item (only for the lock to be
\* free); the process exits with 130 after the notice, with the stop flag
\* set if the progress display is enabled, and neither the pool's shutdown
\* nor the summary happens on this path.
C5_Cancellation ==
    /\ interrupted => pc \in HandlerPositions \cup {"exited"}
    /\ pc = "int_stop" => ENABLED IntStopProgress
    /\ (pc = "int_lock" /\ progress_lock = {}) => ENABLED IntAcquire
    /\ pc = "int_locked" => ENABLED IntClearLines
    /\ pc = "int_notice" => ENABLED IntNotice
    /\ pc = "int_exit" => ENABLED IntExit
    /\ (interrupted /\ progress_enabled /\ pc \notin {"int_stop"}) => progress_stop
    /\ pc \in HandlerPositions => exit_code = NoExit
    /\ interrupted => ~shutdown_called /\ ~summary_printed
    /\ pc = "exited" => notice_printed /\ exit_code = 130

\* C5 witness: the process has exited with 130 while a clone was reading its
\* response and another was still queued.
C5_Witness ==
    /\ pc = "exited"
    /\ exit_code = 130
    /\ progress_enabled
    /\ \E i \in Ids : opc[i] \in {"reading", "callback"}
    /\ \E i \in Ids : opc[i] = "queued"

\* C6: an uninterrupted run returns 0 exactly if no operation failed and 1
\* if one did; an interrupted run exits with 130.
C6_ExitCode ==
    /\ Returns => (exit_code = 0 <=> Errored = {})
    /\ Returns => (Errored # {} => exit_code = 1)
    /\ pc = "exited" => exit_code = 130


\* Every thread at a position where it reads or writes progress_data holds
\* the lock, and the lock has at most one holder.
LockDiscipline ==
    /\ Cardinality(progress_lock) <= 1
    /\ \A i \in Ids : opc[i] \in LockedPositions <=> WorkerThread(i) \in progress_lock
    /\ rpc = "locked" <=> RendererThread \in progress_lock
    /\ pc \in {"clear_locked", "int_locked"} <=> MainThread \in progress_lock

\* A step that changes the entry of clone i is taken by i's worker holding
\* the lock; a step of the renderer or of the orchestrator changes no entry.
WritesUnderLock ==
    /\ \A i \in Ids :
          progress_data'[i] # progress_data[i] =>
              /\ progress_lock = {WorkerThread(i)}
              /\ opc[i] \in LockedPositions
    /\ (rpc' # rpc \/ pc' # pc) => progress_data' = progress_data

\* C7: every access to progress_data, by a worker, the renderer or the
\* orchestrator, is made holding progress_lock; two threads never hold it
\* together; the renderer never writes to the map.
C7_LockSerialises == [][WritesUnderLock]_vars /\ []LockDiscipline

\* C7 witness: a worker is inside its with block about to write while the
\* renderer and another worker wait for the lock.
C7_Witness ==
    /\ rpc = "lock"
    /\ \E i, j \in Ids :
          /\ opc[i] = "callback_locked"
          /\ opc[j] \in LockPositions

Phase(i) == progress_data[i][2]
Terminal == {"complete", "failed"}
Rank(p) == CASE p = "absent" -> 0
             [] p = "starting" -> 1
             [] p = "downloading" -> 2
             [] p \in Terminal -> 3

\* One step of the lifecycle of clone i's entry: it appears as (0, starting),
\* never disappears, its phase never moves back, and a terminal entry is
\* never changed.
LifecycleStep(i) ==
    /\ (Phase(i) = "absent" /\ Phase(i)' # "absent") => progress_data'[i] = <<0, "starting">>
    /\ Rank(Phase(i)') >= Rank(Phase(i))
    /\ Phase(i) \in Terminal => progress_data'[i] = progress_data[i]

\* Where clone i's entry stands at each position of its worker.
LifecycleState(i) ==
    /\ ~progress_enabled => Phase(i) = "absent"
    /\ progress_enabled =>
          /\ opc[i] \in {"unsubmitted", "queued", "init", "init_locked"} <=> Phase(i) = "absent"
          /\ opc[i] = "done" <=> Phase(i) \in Terminal
          /\ (opc[i] = "done" /\ error[i] = None) =>
                 progress_data[i] = <<outcome[i].bytes_received, "complete">>
          /\ (opc[i] = "done" /\ error[i] # None) => progress_data[i] = <<0, "failed">>

\* C8: with the progress display enabled, an operation's entry is created as
\* (0, starting) when its worker starts, is never deleted, moves only forward
\* through starting, downloading, complete or failed, is not changed once
\* terminal, and after an uninterrupted run every id 1..count has a terminal
\* entry.
C8_Lifecycle ==
    /\ [][\A i \in Ids : LifecycleStep(i)]_vars
    /\ [](\A i \in Ids : LifecycleState(i))
    /\ []((progress_enabled /\ pc \in {"stop_progress", "clear_lock", "clear_locked", "report", "done"})
            => \A i \in 1..count : Phase(i) \in Terminal)

\* C8 witness: the run has returned with one entry complete after
\* downloading and one failed.
C8_Witness ==
    /\ Returns
    /\ progress_enabled
    /\ \E i, j \in 1..count :
          /\ Phase(i) = "complete" /\ progress_data[i][1] > 0
          /\ Phase(j) = "failed"


---------------------------------------------------------------------------
\* SpecFetch: one call of upload_pack(request) on a progress transport,
\* HttpsTransportWithProgress (https_transport_progress.py:19-47) or
\* SshTransportWithProgress (ssh_transport_progress.py:20-65).

\* response.iter_content(chunk_size=8192), stdout.read(8192).
chunk_size == 8192

\* Lengths a response chunk can have: never empty, at most chunk_size.
ChunkLens == (1..MaxFetchChunkLen) \cup {chunk_size}

\* The callback gets the length of the chunk instead of the running total.
ChunkLenArg(total, chunk_len) == chunk_len

\* self.progress_callback(total_bytes): the argument of the callback.
CallbackArg(total, chunk_len) == total

InitFetch ==
    /\ OrchIdle
    /\ CodecIdle
    /\ AdvIdle
    /\ RequestIdle
    /\ CloneIdle
    /\ variant \in {"https", "ssh"}
    /\ has_callback \in BOOLEAN
    /\ upc = "start"
    /\ client_open = FALSE
    /\ buffer_has_flush = FALSE
    /\ request_sent = FALSE
    /\ write_shutdown = FALSE
    /\ received = <<>>
    /\ up_total_bytes = 0
    /\ reported = <<>>
    /\ up_return = NoReturn

\* An exception leaves upload_pack: through the finally block of the ssh
\* variant once the client is connected, directly otherwise.
FetchRaise == upc' = IF variant = "ssh" /\ client_open THEN "finally_raise" ELSE "raised"

\* https_transport_progress.py:30-35: session.post(...) sends the request.
HttpsPost ==
    /\ variant = "https"
    /\ upc = "start"
    /\ \/ request_sent' = TRUE /\ upc' = "status"
       \/ FetchRaise /\ UNCHANGED request_sent
    /\ UNCHANGED <<variant, has_callback, client_open, buffer_has_flush,
                   write_shutdown, received, up_total_bytes, reported, up_return>>
    /\ UNCHANGED nonFetchVars

\* https_transport_progress.py:36: response.raise_for_status().
HttpsStatus ==
    /\ variant = "https"
    /\ upc = "status"
    /\ \/ upc' = "loop"
       \/ FetchRaise
    /\ UNCHANGED <<variant, has_callback, client_open, buffer_has_flush,
                   request_sent, write_shutdown, received, up_total_bytes,
                   reported, up_return>>
    /\ UNCHANGED nonFetchVars

\* ssh_transport_progress.py:29: client = self._connect(), before the try.
SshConnect ==
    /\ variant = "ssh"
    /\ upc = "start"
    /\ \/ client_open' = TRUE /\ upc' = "exec"
       \/ FetchRaise /\ UNCHANGED client_open
    /\ UNCHANGED <<variant, has_callback, buffer_has_flush, request_sent,
                   write_shutdown, received, up_total_bytes, reported, up_return>>
    /\ UNCHANGED nonFetchVars

\* ssh_transport_progress.py:32-33: client.exec_command(command).
SshExec ==
    /\ variant = "ssh"
    /\ upc = "exec"
    /\ \/ upc' = "read_adv"
       \/ FetchRaise
    /\ UNCHANGED <<variant, has_callback, client_open, buffer_has_flush,
                   request_sent, write_shutdown, received, up_total_bytes,
                   reported, up_return>>
    /\ UNCHANGED nonFetchVars

\* ssh_transport_progress.py:36-43: one pass of the loop that reads and
\* discards the advertisement: the output ended, or the buffer now holds
\* b"0000", or it does not yet.
SshReadAdvertisement ==
    /\ variant = "ssh"
    /\ upc = "read_adv"
    /\ \/ upc' = "write" /\ UNCHANGED buffer_has_flush
       \/ buffer_has_flush' = TRUE /\ upc' = "write"
       \/ upc' = "read_adv" /\ UNCHANGED buffer_has_flush
       \/ FetchRaise /\ UNCHANGED buffer_has_flush
    /\ UNCHANGED <<variant, has_callback, client_open, request_sent,
                   write_shutdown, received, up_total_bytes, reported, up_return>>
    /\ UNCHANGED nonFetchVars

\* ssh_transport_progress.py:46-47: stdin.write(request); stdin.flush().
SshWrite ==
    /\ variant = "ssh"
    /\ upc = "write"
    /\ \/ request_sent' = TRUE /\ upc' = "shutdown_write"
       \/ FetchRaise /\ UNCHANGED request_sent
    /\ UNCHANGED <<variant, has_callback, client_open, buffer_has_flush,
                   write_shutdown, received, up_total_bytes, reported, up_return>>
    /\ UNCHANGED nonFetchVars

\* ssh_transport_progress.py:48: stdin.channel.shutdown_write().
SshShutdownWrite ==
    /\ variant = "ssh"
    /\ upc = "shutdown_write"
    /\ \/ write_shutdown' = TRUE /\ upc' = "loop"
       \/ FetchRaise /\ UNCHANGED write_shutdown
    /\ UNCHANGED <<variant, has_callback, client_open, buffer_has_flush,
                   request_sent, received, up_total_bytes, reported, up_return>>
    /\ UNCHANGED nonFetchVars

\* https_transport_progress.py:40-41, ssh_transport_progress.py:53-56: the
\* loop reads a chunk and adds its length to total_bytes.
FetchReadChunk ==
    /\ upc = "loop"
    /\ Len(received) < MaxFetchChunks
    /\ \E n \in ChunkLens :
          /\ received' = Append(received, n)
          /\ up_total_bytes' = up_total_bytes + n
    /\ upc' = "callback"
    /\ UNCHANGED <<variant, has_callback, client_open, buffer_has_flush,
                   request_sent, write_shutdown, reported, up_return>>
    /\ UNCHANGED nonFetchVars

\* https_transport_progress.py:44-45, ssh_transport_progress.py:59-60:
\* if self.progress_callback: self.progress_callback(total_bytes).
FetchCallback ==
    /\ upc = "callback"
    /\ reported' = IF has_callback
                     THEN Append(reported, CallbackArg(up_total_bytes, received[Len(received)]))
                     ELSE reported
    /\ upc' = "loop"
    /\ UNCHANGED <<variant, has_callback, client_open, buffer_has_flush,
                   request_sent, write_shutdown, received, up_total_bytes, up_return>>
    /\ UNCHANGED nonFetchVars

\* The response is exhausted: return total_bytes
\* (https_transport_progress.py:47; ssh_transport_progress.py:54-55, 62,
\* through the finally block).
FetchReadEnd ==
    /\ upc = "loop"
    /\ IF variant = "ssh"
         THEN upc' = "finally_return" /\ UNCHANGED up_return
         ELSE upc' = "returned" /\ up_return' = up_total_bytes
    /\ UNCHANGED <<variant, has_callback, client_open, buffer_has_flush,
                   request_sent, write_shutdown, received, up_total_bytes, reported>>
    /\ UNCHANGED nonFetchVars

\* Reading the response raises.
FetchReadError ==
    /\ upc = "loop"
    /\ FetchRaise
    /\ UNCHANGED <<variant, has_callback, client_open, buffer_has_flush,
                   request_sent, write_shutdown, received, up_total_bytes,
                   reported, up_return>>
    /\ UNCHANGED nonFetchVars

\* ssh_transport_progress.py:64-65: finally: client.close(), then the return
\* or the exception goes on.
SshClose ==
    /\ upc \in {"finally_return", "finally_raise"}
    /\ client_open' = FALSE
    /\ IF upc = "finally_return"
         THEN upc' = "returned" /\ up_return' = up_total_bytes
         ELSE upc' = "raised" /\ UNCHANGED up_return
    /\ UNCHANGED <<variant, has_callback, buffer_has_flush, request_sent,
                   write_shutdown, received, up_total_bytes, reported>>
    /\ UNCHANGED nonFetchVars

NextFetch ==
    \/ HttpsPost
    \/ HttpsStatus
    \/ SshConnect
    \/ SshExec
    \/ SshReadAdvertisement
    \/ SshWrite
    \/ SshShutdownWrite
    \/ FetchReadChunk
    \/ FetchCallback
    \/ FetchReadEnd
    \/ FetchReadError
    \/ SshClose

SpecFetch == InitFetch /\ [][NextFetch]_vars

\* The sum of the first k chunk lengths.
RECURSIVE PrefixSum(_, _)
PrefixSum(lens, k) == IF k = 0 THEN 0 ELSE lens[k] + PrefixSum(lens, k - 1)

\* C9: within one fetch, for both variants, the values passed to the progress
\* callback never decrease, there is one call per chunk received and it
\* carries the running total, and the last value reported is the byte count
\* upload_pack returns.
C9_ProgressMonotone ==
    /\ \A k \in 1..(Len(reported) - 1) : reported[k] <= reported[k + 1]
    /\ has_callback =>
          /\ Len(reported) = IF upc = "callback" THEN Len(received) - 1 ELSE Len(received)
          /\ \A k \in 1..Len(reported) : reported[k] = PrefixSum(received, k)
    /\ ~has_callback => reported = <<>>
    /\ upc = "returned" <=> up_return # NoReturn
    /\ upc = "returned" =>
          /\ up_return = PrefixSum(received, Len(received))
          /\ reported # <<>> => reported[Len(reported)] = up_return

\* C9 witness: an ssh fetch has returned after several chunks of different
\* lengths, each reported to the callback.
C9_Witness ==
    /\ variant = "ssh"
    /\ upc = "returned"
    /\ Len(reported) >= 2
    /\ received[1] > received[2]
    /\ up_return = reported[Len(reported)]


---------------------------------------------------------------------------
\* SpecCodec: PktLine.encode(payload) and then PktLine.parse of the result
\* (protocol.py:20-66).  A bytes object is a sequence of numbers 0..255.

\* The length field: 4 hexadecimal characters (protocol.py:37, 66).
HexWidth == 4
HexBase == 16

\* The largest value the length field can carry, 0xFFFF.
MaxLengthField == HexBase * HexBase * HexBase * HexBase - 1

\* The character of the hexadecimal digit d, as format(.., "x") writes it.
HexChar(d) == IF d < 10 THEN 48 + d ELSE 87 + d

\* format(n, "x") for n >= 0: as many digits as n needs, at least one.
RECURSIVE ToHex(_)
ToHex(n) ==
    IF n < HexBase THEN <<HexChar(n)>>
    ELSE ToHex(n \div HexBase) \o <<HexChar(n % HexBase)>>

\* f"{n:04x}": zero-padded to HexWidth characters, longer if n needs more.
RECURSIVE ZeroPad(_)
ZeroPad(digits) == IF Len(digits) >= HexWidth THEN digits ELSE ZeroPad(<<48>> \o digits)
Format04x(n) == ZeroPad(ToHex(n))

\* The length field counts the payload only.
PayloadOnlyLength(bytes) == Len(bytes)

\* protocol.py:65: length = len(data) + 4.
EncodedLength(bytes) == Len(bytes) + HexWidth

\* protocol.py:56-66: PktLine.encode.
encode(bytes) == Format04x(EncodedLength(bytes)) \o bytes

\* bytes[a:b] with Python's slice rules (0-based, negative indices count
\* from the end, out-of-range indices are clipped).
Clip(k, n) == IF k < 0 THEN (IF k + n < 0 THEN 0 ELSE k + n) ELSE (IF k > n THEN n ELSE k)
PySlice(bytes, a, b) ==
    LET lo == Clip(a, Len(bytes))
        hi == Clip(b, Len(bytes))
    IN  IF lo < hi THEN SubSeq(bytes, lo + 1, hi) ELSE <<>>

\* What int(text, 16) accepts (CPython): white space around, a sign, a 0x
\* prefix with one underscore after it, then digits with single underscores
\* between them.
IsSpace(c) == c \in {9, 10, 11, 12, 13, 32}
IsHexDigit(c) == c \in (48..57) \cup (97..102) \cup (65..70)
DigitValue(c) == IF c <= 57 THEN c - 48 ELSE IF c >= 97 THEN c - 87 ELSE c - 55

RECURSIVE LStrip(_)
LStrip(t) == IF t # <<>> /\ IsSpace(t[1]) THEN LStrip(Tail(t)) ELSE t
RECURSIVE RStrip(_)
RStrip(t) == IF t # <<>> /\ IsSpace(t[Len(t)]) THEN RStrip(SubSeq(t, 1, Len(t) - 1)) ELSE t

RECURSIVE DigitsValue(_, _)
DigitsValue(t, acc) ==
    IF t = <<>> THEN acc
    ELSE IF t[1] = 95 THEN DigitsValue(Tail(t), acc)
    ELSE DigitsValue(Tail(t), acc * HexBase + DigitValue(t[1]))

\* A 0x or 0X prefix, and the digits after it: one underscore may follow the
\* prefix.
HasPrefix(u) == Len(u) >= 2 /\ u[1] = 48 /\ u[2] \in {120, 88}
DropUnderscore(v) == IF v # <<>> /\ v[1] = 95 THEN Tail(v) ELSE v
AfterPrefix(u) == IF HasPrefix(u) THEN DropUnderscore(SubSeq(u, 3, Len(u))) ELSE u

\* Digits with single underscores between them, and at least one digit.
IsDigits(w) ==
    /\ w # <<>>
    /\ IsHexDigit(w[1])
    /\ IsHexDigit(w[Len(w)])
    /\ \A k \in 1..Len(w) : IsHexDigit(w[k]) \/ w[k] = 95
    /\ \A k \in 1..(Len(w) - 1) : ~(w[k] = 95 /\ w[k + 1] = 95)

\* The result of int(..): [ok |-> FALSE] stands for ValueError.
Magnitude(w) == [ok |-> IsDigits(w), value |-> IF IsDigits(w) THEN DigitsValue(w, 0) ELSE 0]
Negated(r) == [ok |-> r.ok, value |-> 0 - r.value]
Unsigned(u) == Magnitude(AfterPrefix(u))
Signed(t) ==
    IF t # <<>> /\ t[1] = 45 THEN Negated(Unsigned(Tail(t)))
    ELSE IF t # <<>> /\ t[1] = 43 THEN Unsigned(Tail(t))
    ELSE Unsigned(t)

\* int(text, 16).
IntBase16(text) == Signed(RStrip(LStrip(text)))

\* bytes.decode('ascii') raises UnicodeDecodeError on a byte above 127.
IsAscii(bytes) == \A k \in 1..Len(bytes) : bytes[k] < 128


\* How a call of PktLine.parse ends, with its locals at that point.
ParseReturns(off, pkts) == [raised |-> FALSE, offset |-> off, packets |-> pkts]
ParseRaises(off, pkts) == [raised |-> TRUE, offset |-> off, packets |-> pkts]

RECURSIVE ParseFrom(_, _, _)

\* protocol.py:40-51: the branches on length, when int(..) has returned it.
\* A flush packet is skipped like a delimiter and the scan goes on.
FlushContinues(bytes, off, pkts) == ParseFrom(bytes, off + HexWidth, pkts)

\* protocol.py:40-42: length == 0: offset += 4; break.
FlushBranch(bytes, off, pkts) == ParseReturns(off + HexWidth, pkts)

\* A delimiter or response-end packet ends the scan like a flush packet.
MarkerStops(bytes, off, pkts) == ParseReturns(off + HexWidth, pkts)

\* protocol.py:43-45: length == 1 or length == 2: offset += 4; continue.
MarkerBranch(bytes, off, pkts) == ParseFrom(bytes, off + HexWidth, pkts)

\* The packet is sliced without looking at the end of the buffer.
NeverTruncated(bytes, off, n) == FALSE

\* protocol.py:47-48: the packet runs past the end of the buffer.
PacketTruncated(bytes, off, n) == off + n > Len(bytes)

ParseLength(bytes, off, pkts, length) ==
    IF ~length.ok THEN ParseRaises(off, pkts)
    ELSE IF length.value = 0 THEN FlushBranch(bytes, off, pkts)
    ELSE IF length.value = 1 \/ length.value = 2
         THEN MarkerBranch(bytes, off, pkts)
    ELSE IF PacketTruncated(bytes, off, length.value) THEN ParseReturns(off, pkts)
    ELSE ParseFrom(bytes, off + length.value,
                   Append(pkts, PySlice(bytes, off + HexWidth, off + length.value)))

\* protocol.py:37-38: decode the length field, then int(length_str, 16).
ParseField(bytes, off, pkts, field) ==
    IF ~IsAscii(field) THEN ParseRaises(off, pkts)
    ELSE ParseLength(bytes, off, pkts, IntBase16(field))

\* protocol.py:33-51: PktLine.parse from the loop test on, with the locals
\* offset and packets.
ParseFrom(bytes, off, pkts) ==
    IF ~(off < Len(bytes)) THEN ParseReturns(off, pkts)
    ELSE IF off + HexWidth > Len(bytes) THEN ParseReturns(off, pkts)
    ELSE ParseField(bytes, off, pkts, PySlice(bytes, off, off + HexWidth))

\* protocol.py:21-53: PktLine.parse.
parse(bytes) == ParseFrom(bytes, 0, <<>>)

\* The payloads tried: every short buffer over a digit, a letter digit, a
\* control-marker digit and a non-ASCII byte, and uniform buffers whose
\* encoded length sits on either side of a power of HexBase.
PayloadBytes == {48, 50, 102, 255}
ShortPayloads == UNION {[1..n -> PayloadBytes] : n \in 0..MaxPayloadLen}
BoundaryLengths ==
    {HexBase - HexWidth - 1, HexBase - HexWidth,
     HexBase * HexBase - HexWidth - 1, HexBase * HexBase - HexWidth,
     HexBase * HexBase * HexBase - HexWidth - 1,
     HexBase * HexBase * HexBase - HexWidth,
     MaxLengthField - HexWidth, MaxLengthField - HexWidth + 1}
LongPayloads == {[k \in 1..n |-> 48] : n \in BoundaryLengths}

InitCodec ==
    /\ OrchIdle
    /\ FetchIdle
    /\ AdvIdle
    /\ RequestIdle
    /\ CloneIdle
    /\ payload \in ShortPayloads \cup LongPayloads
    /\ cpc = "encode"
    /\ data = <<>>
    /\ offset = 0
    /\ packets = <<>>
    /\ frames = <<>>
    /\ cut = 0

\* data = PktLine.encode(payload).
Encode ==
    /\ cpc = "encode"
    /\ data' = encode(payload)
    /\ cpc' = "parse"
    /\ UNCHANGED <<payload, offset, packets, frames, cut>>
    /\ UNCHANGED nonCodecVars

\* PktLine.parse(data), to its return or to the exception that leaves it.
Parse ==
    /\ cpc = "parse"
    /\ LET result == parse(data)
       IN  /\ cpc' = IF result.raised THEN "raised" ELSE "returned"
           /\ offset' = result.offset
           /\ packets' = result.packets
    /\ UNCHANGED <<payload, data, frames, cut>>
    /\ UNCHANGED nonCodecVars

NextCodec == Encode \/ Parse

SpecCodec == InitCodec /\ [][NextCodec]_vars

\* C10: for every payload of length 0 to 0xFFFB, PktLine.parse of
\* PktLine.encode(payload) does not raise and returns a list of exactly one
\* packet, and that packet equals the payload.
C10_RoundTrip ==
    Len(payload) <= MaxLengthField - HexWidth =>
        /\ cpc # "raised"
        /\ cpc = "returned" => (Len(packets) = 1 /\ packets[1] = payload)

\* A payload whose encoded length, 0xFFF, fills three digits of the length
\* field has been encoded and parsed back.
C10_Witness ==
    /\ cpc = "returned"
    /\ Len(payload) = HexBase * HexBase * HexBase - HexWidth - 1
    /\ packets = <<payload>>


\* C11: PktLine.encode fails for every payload whose encoded length
\* len(payload) + 4 exceeds 0xFFFF, and whenever it returns a buffer the
\* length field of that buffer is exactly 4 hexadecimal characters (the
\* buffer is the payload and 4 more bytes).
C11_EncodeRange ==
    cpc \in {"parse", "returned", "raised"} =>
        /\ Len(payload) + HexWidth <= MaxLengthField
        /\ Len(data) = Len(payload) + HexWidth
        /\ \A k \in 1..HexWidth : IsHexDigit(data[k])


---------------------------------------------------------------------------
\* SpecParse: PktLine.parse of a buffer built from frames and cut after any
\* number of bytes (protocol.py:16-53).

\* protocol.py:16-18.
FLUSH == <<48, 48, 48, 48>>
DELIM == <<48, 48, 48, 49>>
RESPONSE_END == <<48, 48, 48, 50>>

\* A frame is a data packet with its payload or one of the three markers.
DataFrame(bytes) == [kind |-> "data", payload |-> bytes]
FlushFrame == [kind |-> "flush", payload |-> <<>>]
DelimFrame == [kind |-> "delim", payload |-> <<>>]
ResponseEndFrame == [kind |-> "response_end", payload |-> <<>>]

\* The bytes of a frame on the wire.
Wire(frame) ==
    CASE frame.kind = "data" -> encode(frame.payload)
      [] frame.kind = "flush" -> FLUSH
      [] frame.kind = "delim" -> DELIM
      [] frame.kind = "response_end" -> RESPONSE_END

\* The bytes of the first k frames, one after the other.
RECURSIVE WireUpTo(_, _)
WireUpTo(fs, k) == IF k = 0 THEN <<>> ELSE WireUpTo(fs, k - 1) \o Wire(fs[k])
WireOf(fs) == WireUpTo(fs, Len(fs))

\* The payloads tried in data frames: empty, one byte, a non-ASCII byte
\* followed by a line feed, and the four characters of a flush packet.
FramePayloads == {<<>>, <<102>>, <<255, 10>>, FLUSH}
Frames == {DataFrame(b) : b \in FramePayloads}
              \cup {FlushFrame, DelimFrame, ResponseEndFrame}
FrameLists == UNION {[1..n -> Frames] : n \in 0..MaxFrames}

InitParse ==
    /\ OrchIdle
    /\ FetchIdle
    /\ AdvIdle
    /\ RequestIdle
    /\ CloneIdle
    /\ payload = <<>>
    /\ frames \in FrameLists
    /\ cut \in 0..Len(WireOf(frames))
    /\ data = PySlice(WireOf(frames), 0, cut)
    /\ cpc = "parse"
    /\ offset = 0
    /\ packets = <<>>

NextParse == Parse

SpecParse == InitParse /\ [][NextParse]_vars

\* The frames that lie entirely in the first n bytes of the buffer.
WholeFrames(fs, n) == Cardinality({k \in 1..Len(fs) : Len(WireUpTo(fs, k)) <= n})

\* The position of the first flush frame among the first k frames, k + 1 if
\* there is none.
FirstFlush(fs, k) ==
    IF \E j \in 1..k : fs[j].kind = "flush"
    THEN CHOOSE j \in 1..k : fs[j].kind = "flush" /\ \A i \in 1..(j - 1) : fs[i].kind # "flush"
    ELSE k + 1

\* The payloads of the data frames among the first k frames, in order.
RECURSIVE DataPayloads(_, _)
DataPayloads(fs, k) ==
    IF k = 0 THEN <<>>
    ELSE IF fs[k].kind = "data" THEN Append(DataPayloads(fs, k - 1), fs[k].payload)
    ELSE DataPayloads(fs, k - 1)

\* The whole buffer was handed to parse.
Uncut == cut = Len(WireOf(frames))

\* The frames parse scans as data packets or skipped markers: the whole
\* frames before the cut, up to the first flush frame among them.
Whole == WholeFrames(frames, cut)
Scanned == IF FirstFlush(frames, Whole) <= Whole THEN FirstFlush(frames, Whole) - 1 ELSE Whole

\* The number of data frames among the first k frames.
DataCount(fs, k) == Cardinality({j \in 1..k : fs[j].kind = "data"})

\* C12: flush termination.  When the whole buffer is parsed, the packets
\* returned are exactly the payloads of the data frames before the first
\* flush frame, so no packet framed after that flush frame is returned, and
\* the scan stops right after the flush frame.
C12_FlushTermination ==
    (cpc = "returned" /\ Uncut) =>
        LET first == FirstFlush(frames, Len(frames))
        IN  /\ packets = DataPayloads(frames, first - 1)
            /\ first <= Len(frames) => offset = Len(WireUpTo(frames, first))

\* The whole of a buffer with a data frame on each side of a flush frame has
\* been parsed, and only the first data packet was returned.
C12_Witness ==
    /\ cpc = "returned"
    /\ Uncut
    /\ Len(frames) = 3
    /\ frames[1].kind = "data"
    /\ frames[2].kind = "flush"
    /\ frames[3].kind = "data"
    /\ packets = <<frames[1].payload>>

\* C13 as stated: parse of the buffer cut anywhere returns without raising,
\* and returns exactly the packets whose header and payload lie entirely
\* before the cut.
C13_AsStated ==
    /\ cpc # "raised"
    /\ cpc = "returned" => packets = DataPayloads(frames, Whole)

\* C13: truncation tolerance.  Parse of the buffer cut anywhere returns
\* without raising, and returns exactly the packets that precede the first
\* flush frame and whose header and payload lie entirely before the cut.
C13_Truncation ==
    /\ cpc # "raised"
    /\ cpc = "returned" => packets = DataPayloads(frames, Scanned)

\* A buffer of two data frames cut inside the payload of the second one has
\* been parsed, and only the first packet was returned.
C13_Witness ==
    /\ cpc = "returned"
    /\ Len(frames) >= 2
    /\ frames[1].kind = "data"
    /\ frames[2].kind = "data"
    /\ cut > Len(WireUpTo(frames, 1)) + HexWidth
    /\ cut < Len(WireUpTo(frames, 2))
    /\ packets = <<frames[1].payload>>

\* C14: delimiter and response-end frames are never emitted as packets.
\* The list returned has one packet per scanned data frame, each data frame
\* scanned after a marker included, and a marker moves the scan on by exactly
\* its 4 header bytes: a buffer without a flush frame that is cut at a frame
\* boundary is scanned to its end.
C14_MarkersSkipped ==
    cpc = "returned" =>
        /\ Len(packets) = DataCount(frames, Scanned)
        /\ \A j \in 1..Scanned :
              frames[j].kind = "data" => packets[DataCount(frames, j)] = frames[j].payload
        /\ (Scanned = Whole /\ cut = Len(WireUpTo(frames, Whole))) => offset = cut

\* A delimiter, a data frame, a response-end frame and a data frame have been
\* parsed, and both data packets were returned.
C14_Witness ==
    /\ cpc = "returned"
    /\ Uncut
    /\ Len(frames) = 3
    /\ frames[1].kind \in {"delim", "response_end"}
    /\ frames[2].kind = "data"
    /\ frames[3].kind = "data"
    /\ packets = <<frames[2].payload, frames[3].payload>>
    /\ offset = cut

---------------------------------------------------------------------------
\* SpecAdv: RefAdvertisement.parse(adv_packets) and then default_ref()
\* (protocol.py:77-137).  Text is a sequence of code points.

\* str.isspace() below 128: what str.strip() and str.split() take as white
\* space.
IsStrSpace(c) == c \in (9..13) \cup (28..32)

\* bytes.decode('utf-8', errors='ignore') of bytes that are ASCII or not
\* part of any UTF-8 sequence: the undecodable bytes are dropped.
IsAsciiByte(c) == c < 128
DecodeIgnore(bytes) == SelectSeq(bytes, IsAsciiByte)

RECURSIVE StripLeft(_)
StripLeft(t) == IF t # <<>> /\ IsStrSpace(t[1]) THEN StripLeft(Tail(t)) ELSE t
RECURSIVE StripRight(_)
StripRight(t) ==
    IF t # <<>> /\ IsStrSpace(t[Len(t)]) THEN StripRight(SubSeq(t, 1, Len(t) - 1)) ELSE t
\* str.strip().
StrStrip(t) == StripRight(StripLeft(t))

\* The length of the word at the start of u, which begins with no space.
FirstWordLen(u) ==
    IF \E k \in 1..Len(u) : IsStrSpace(u[k])
    THEN (CHOOSE k \in 1..Len(u) : IsStrSpace(u[k]) /\ \A j \in 1..(k - 1) : ~IsStrSpace(u[j])) - 1
    ELSE Len(u)

\* str.split(): the words between runs of white space.
RECURSIVE WordsFrom(_)
Words(t) == WordsFrom(StripLeft(t))
WordsFrom(u) ==
    IF u = <<>> THEN <<>>
    ELSE <<SubSeq(u, 1, FirstWordLen(u))>> \o Words(SubSeq(u, FirstWordLen(u) + 1, Len(u)))

\* '\x00' in line, and line.split('\x00', 1).
HasNul(t) == \E k \in 1..Len(t) : t[k] = 0
NulAt(t) == CHOOSE k \in 1..Len(t) : t[k] = 0 /\ \A j \in 1..(k - 1) : t[j] # 0
BeforeNul(t) == SubSeq(t, 1, NulAt(t) - 1)
AfterNul(t) == SubSeq(t, NulAt(t) + 1, Len(t))

\* adv.refs[ref_name] = sha on a dict kept as its items in order: a new key
\* goes to the end, a key already there keeps its place and gets the value.
HasKey(items, name) == \E k \in 1..Len(items) : items[k][1] = name
SetItem(items, name, sha) ==
    IF HasKey(items, name)
    THEN [k \in 1..Len(items) |-> IF items[k][1] = name THEN <<name, sha>> ELSE items[k]]
    ELSE Append(items, <<name, sha>>)

\* protocol.py:103-106 and 110-113: parts = ..split(); if len(parts) >= 2:
\* adv.refs[parts[1]] = parts[0].
Record(items, parts) ==
    IF Len(parts) >= 2 THEN SetItem(items, parts[2], parts[1]) ELSE items

\* protocol.py:94-113: the body of the loop for the packet at index i
\* (counted from 0) whose stripped line is line; cap_index is the index the
\* capability branch is taken at.
AdvLine(adv, i, line, cap_index) ==
    IF line = <<>> THEN adv
    ELSE IF i = cap_index /\ HasNul(line)
         THEN [refs |-> Record(adv.refs, Words(BeforeNul(line))),
               capabilities |-> Words(AfterNul(line))]
    ELSE [adv EXCEPT !.refs = Record(adv.refs, Words(line))]

\* The loop over the first n packets.
RECURSIVE AdvLoop(_, _, _)
AdvLoop(pkts, n, cap_index) ==
    IF n = 0 THEN [refs |-> <<>>, capabilities |-> <<>>]
    ELSE AdvLine(AdvLoop(pkts, n - 1, cap_index), n - 1,
                 StrStrip(DecodeIgnore(pkts[n])), cap_index)

\* protocol.py:82-114: RefAdvertisement.parse; the capability branch is
\* under `if i == 0 and ...`.
AdvParse(pkts) == AdvLoop(pkts, Len(pkts), 0)

\* The names default_ref looks for (protocol.py:123-135).
HEAD == <<72, 69, 65, 68>>
refs_heads_main == <<114, 101, 102, 115, 47, 104, 101, 97, 100, 115, 47, 109, 97, 105, 110>>
refs_heads_master == <<114, 101, 102, 115, 47, 104, 101, 97, 100, 115, 47, 109, 97, 115, 116, 101, 114>>
refs_heads == <<114, 101, 102, 115, 47, 104, 101, 97, 100, 115, 47>>

\* str.startswith(prefix).
StartsWith(t, prefix) == Len(t) >= Len(prefix) /\ SubSeq(t, 1, Len(prefix)) = prefix

\* self.refs[name].
Lookup(items, name) == items[CHOOSE k \in 1..Len(items) : items[k][1] = name][2]

\* The branch the loop of default_ref ends at, were it to keep the last one.
LastBranch(items) ==
    CHOOSE k \in 1..Len(items) :
        /\ StartsWith(items[k][1], refs_heads)
        /\ \A j \in (k + 1)..Len(items) : ~StartsWith(items[j][1], refs_heads)

\* protocol.py:133-135: the first item of self.refs.items() whose name
\* starts with refs/heads/.
FirstBranch(items) ==
    CHOOSE k \in 1..Len(items) :
        /\ StartsWith(items[k][1], refs_heads)
        /\ \A j \in 1..(k - 1) : ~StartsWith(items[j][1], refs_heads)

\* None, as the result of default_ref.
NoRef == <<>>

\* protocol.py:116-137: default_ref.
default_ref(items) ==
    IF HasKey(items, HEAD) THEN <<HEAD, Lookup(items, HEAD)>>
    ELSE IF HasKey(items, refs_heads_main)
         THEN <<refs_heads_main, Lookup(items, refs_heads_main)>>
    ELSE IF HasKey(items, refs_heads_master)
         THEN <<refs_heads_master, Lookup(items, refs_heads_master)>>
    ELSE IF \E k \in 1..Len(items) : StartsWith(items[k][1], refs_heads)
         THEN items[FirstBranch(items)]
    ELSE NoRef

\* The packets tried.
\* an empty packet
EmptyLine == <<>>
\* a packet of one line feed
BlankLine == <<10>>
\* 1 HEAD, a null byte, the capabilities c and d
HeadCapsLine == <<49, 32, 72, 69, 65, 68, 0, 99, 32, 100, 10>>
\* 2 HEAD and a line feed
HeadLine == <<50, 32, 72, 69, 65, 68, 10>>
\* 3 refs/heads/main and a line feed
MainLine == <<51, 32, 114, 101, 102, 115, 47, 104, 101, 97, 100, 115, 47, 109, 97, 105, 110, 10>>
\* 4 refs/heads/master and a line feed
MasterLine == <<52, 32, 114, 101, 102, 115, 47, 104, 101, 97, 100, 115, 47, 109, 97, 115, 116, 101, 114, 10>>
\* 5 refs/heads/feature and a line feed
FeatureLine == <<53, 32, 114, 101, 102, 115, 47, 104, 101, 97, 100, 115, 47, 102, 101, 97, 116, 117, 114, 101, 10>>
\* the same ref again, another id, an undecodable byte
FeatureAgainLine == <<54, 32, 114, 101, 102, 115, 47, 104, 101, 97, 100, 115, 47, 102, 101, 97, 116, 117, 114, 101, 32, 255, 10>>
\* a branch, a null byte, the capability e
DevCapsLine == <<55, 32, 114, 101, 102, 115, 47, 104, 101, 97, 100, 115, 47, 100, 101, 118, 0, 101, 10>>
\* 8 refs/tags/v1 and a line feed
TagLine == <<56, 32, 114, 101, 102, 115, 47, 116, 97, 103, 115, 47, 118, 49, 10>>
\* one token only
OneTokenLine == <<57, 10>>
\* a null byte and the capability f, no ref part
CapsOnlyLine == <<0, 102, 10>>
AdvLines ==
    {EmptyLine,
     BlankLine,
     HeadCapsLine,
     HeadLine,
     MainLine,
     MasterLine,
     FeatureLine,
     FeatureAgainLine,
     DevCapsLine,
     TagLine,
     OneTokenLine,
     CapsOnlyLine}
AdvPacketLists == UNION {[1..n -> AdvLines] : n \in 0..MaxPackets}

InitAdv ==
    /\ OrchIdle
    /\ FetchIdle
    /\ CodecIdle
    /\ RequestIdle
    /\ CloneIdle
    /\ adv_packets \in AdvPacketLists
    /\ apc = "parse"
    /\ refs = <<>>
    /\ capabilities = <<>>
    /\ selected = NoRef

\* adv = RefAdvertisement.parse(adv_packets).
ParseAdv ==
    /\ apc = "parse"
    /\ refs' = AdvParse(adv_packets).refs
    /\ capabilities' = AdvParse(adv_packets).capabilities
    /\ apc' = "default_ref"
    /\ UNCHANGED <<adv_packets, selected>>
    /\ UNCHANGED nonAdvVars

\* adv.default_ref().
DefaultRef ==
    /\ apc = "default_ref"
    /\ selected' = default_ref(refs)
    /\ apc' = "returned"
    /\ UNCHANGED <<adv_packets, refs, capabilities>>
    /\ UNCHANGED nonAdvVars

NextAdv == ParseAdv \/ DefaultRef

SpecAdv == InitAdv /\ [][NextAdv]_vars

\* The positions in refs of the names that start with refs/heads/.
Branches == {k \in 1..Len(refs) : StartsWith(refs[k][1], refs_heads)}

\* C15: default-ref precedence.  default_ref returns HEAD if refs has it,
\* otherwise refs/heads/main, otherwise refs/heads/master, otherwise the
\* first name in the order of refs that starts with refs/heads/, otherwise
\* none; the id returned is the one refs records for the name returned.
C15_DefaultRef ==
    apc = "returned" =>
        /\ HasKey(refs, HEAD) => selected # NoRef /\ selected[1] = HEAD
        /\ (~HasKey(refs, HEAD) /\ HasKey(refs, refs_heads_main)) =>
              selected # NoRef /\ selected[1] = refs_heads_main
        /\ (~HasKey(refs, HEAD) /\ ~HasKey(refs, refs_heads_main)
               /\ HasKey(refs, refs_heads_master)) =>
              selected # NoRef /\ selected[1] = refs_heads_master
        /\ (~HasKey(refs, HEAD) /\ ~HasKey(refs, refs_heads_main)
               /\ ~HasKey(refs, refs_heads_master) /\ Branches # {}) =>
              \E k \in Branches : selected = refs[k] /\ \A j \in Branches : k <= j
        /\ (~HasKey(refs, HEAD) /\ Branches = {}) => selected = NoRef
        /\ selected # NoRef => \E k \in 1..Len(refs) : refs[k] = selected

\* default_ref has returned the first of two branches, neither of them main
\* or master, of an advertisement without HEAD.
C15_Witness ==
    /\ apc = "returned"
    /\ ~HasKey(refs, HEAD)
    /\ ~HasKey(refs, refs_heads_main)
    /\ ~HasKey(refs, refs_heads_master)
    /\ Cardinality(Branches) >= 2
    /\ \E k \in Branches : selected = refs[k] /\ \A j \in Branches : k <= j

\* The index, counted from 0, of the first packet whose stripped line is not
\* empty; the number of packets if there is none.
FirstNonEmpty(pkts) ==
    IF \E k \in 1..Len(pkts) : StrStrip(DecodeIgnore(pkts[k])) # <<>>
    THEN (CHOOSE k \in 1..Len(pkts) :
             /\ StrStrip(DecodeIgnore(pkts[k])) # <<>>
             /\ \A j \in 1..(k - 1) : StrStrip(DecodeIgnore(pkts[j])) = <<>>) - 1
    ELSE Len(pkts)

\* The items of a dict, without their order.
ItemSet(items) == {items[k] : k \in 1..Len(items)}

\* C16: capability extraction applies to the first non-empty packet only,
\* also when empty or whitespace-only packets precede it: if it holds a null
\* byte, the part before is recorded as (object id, ref name) and the part
\* after gives the capability tokens; every other packet is recorded as
\* (object id, ref name), and a line of fewer than two tokens records nothing.
C16_CapabilityExtraction ==
    apc \in {"default_ref", "returned"} =>
        /\ ItemSet(refs) =
              ItemSet(AdvLoop(adv_packets, Len(adv_packets), FirstNonEmpty(adv_packets)).refs)
        /\ capabilities =
              AdvLoop(adv_packets, Len(adv_packets), FirstNonEmpty(adv_packets)).capabilities

---------------------------------------------------------------------------
\* SpecRequest: build_clone_request(want_shas) (protocol.py:140-169).  A sha
\* is text, a sequence of code points; the request is bytes.

\* str.encode('utf-8') for code points below 0x800: one byte below 128, two
\* bytes from there on.
RECURSIVE EncodeUtf8(_)
EncodeUtf8(t) ==
    IF t = <<>> THEN <<>>
    ELSE IF Len(t) = 1
         THEN (IF t[1] < 128 THEN <<t[1]>>
               ELSE <<192 + (t[1] \div 64), 128 + (t[1] % 64)>>)
    ELSE EncodeUtf8(SubSeq(t, 1, Len(t) \div 2))
             \o EncodeUtf8(SubSeq(t, Len(t) \div 2 + 1, Len(t)))

\* protocol.py:150: the hardcoded client capabilities,
\* "multi_ack_detailed side-band-64k thin-pack ofs-delta
\* agent=git-load-tester-python/0.1.0".
client_capabilities ==
    <<109, 117, 108, 116, 105, 95, 97, 99, 107, 95, 100, 101, 116, 97,
      105, 108, 101, 100, 32, 115, 105, 100, 101, 45, 98, 97, 110, 100,
      45, 54, 52, 107, 32, 116, 104, 105, 110, 45, 112, 97, 99, 107,
      32, 111, 102, 115, 45, 100, 101, 108, 116, 97, 32, 97, 103, 101,
      110, 116, 61, 103, 105, 116, 45, 108, 111, 97, 100, 45, 116, 101,
      115, 116, 101, 114, 45, 112, 121, 116, 104, 111, 110, 47, 48, 46,
      49, 46, 48>>

\* "want ", " " and "\n" of the want lines; b"done\n" (protocol.py:157-166).
want_word == <<119, 97, 110, 116, 32>>
line_feed == <<10>>
blank == <<32>>
done_line == <<100, 111, 110, 101, 10>>

\* Every want line carries the capabilities.
WantLineWithCaps(i, sha) == want_word \o sha \o blank \o client_capabilities \o line_feed

\* protocol.py:156-160: the text of the want line at index i, from 0.
WantLine(i, sha) ==
    IF i = 0 THEN want_word \o sha \o blank \o client_capabilities \o line_feed
    ELSE want_word \o sha \o line_feed

\* protocol.py:155-161: request after the first n passes of the loop.
RECURSIVE WantLoop(_, _)
WantLoop(shas, n) ==
    IF n = 0 THEN <<>>
    ELSE WantLoop(shas, n - 1) \o encode(EncodeUtf8(WantLine(n - 1, shas[n])))

\* protocol.py:140-169: build_clone_request.
build_clone_request(shas) == WantLoop(shas, Len(shas)) \o FLUSH \o encode(done_line)

\* The ids tried: a 40-digit object id, a one-letter one and one with the
\* letter e-acute, which takes two bytes.
LongSha ==
    <<48, 49, 50, 51, 52, 53, 54, 55, 56, 57, 97, 98, 99, 100, 101,
      102, 48, 49, 50, 51, 52, 53, 54, 55, 56, 57, 97, 98, 99, 100,
      101, 102, 48, 49, 50, 51, 52, 53, 54, 55>>
ShortSha == <<97>>
AccentSha == <<233, 49>>
Shas == {LongSha, ShortSha, AccentSha}
ShaLists == UNION {[1..n -> Shas] : n \in 0..MaxWants}

InitRequest ==
    /\ OrchIdle
    /\ FetchIdle
    /\ CodecIdle
    /\ AdvIdle
    /\ CloneIdle
    /\ want_shas \in ShaLists
    /\ qpc = "build"
    /\ request = <<>>

\* request = build_clone_request(want_shas).
BuildRequest ==
    /\ qpc = "build"
    /\ request' = build_clone_request(want_shas)
    /\ qpc' = "returned"
    /\ UNCHANGED want_shas
    /\ UNCHANGED nonRequestVars

NextRequest == BuildRequest

SpecRequest == InitRequest /\ [][NextRequest]_vars

\* The bytes the k-th want line is to hold: the capability string on the
\* first line only.
WantBytes(k) ==
    want_word \o EncodeUtf8(want_shas[k])
        \o (IF k = 1 THEN blank \o client_capabilities ELSE <<>>) \o line_feed

\* "have", the first word of a have line.
have_word == <<104, 97, 118, 101>>

\* The request read back by PktLine.parse: the packets up to the first flush
\* packet, and the bytes after that flush packet.
Wants == parse(request)
AfterWants == SubSeq(request, Wants.offset + 1, Len(request))

\* C17: request structure.  For a non-empty list of ids the request is, in
\* order, one encoded want line per id in the order given, the capability
\* string on the first and on no other, then exactly one flush packet, then
\* one encoded done line as the last packet; no packet is a have line.
C17_RequestStructure ==
    (qpc = "returned" /\ want_shas # <<>>) =>
        /\ ~Wants.raised
        /\ Len(Wants.packets) = Len(want_shas)
        /\ \A k \in 1..Len(want_shas) : Wants.packets[k] = WantBytes(k)
        /\ Wants.offset >= HexWidth
        /\ SubSeq(request, Wants.offset - HexWidth + 1, Wants.offset) = FLUSH
        /\ AfterWants = encode(done_line)
        /\ parse(AfterWants).packets = <<done_line>>
        /\ parse(AfterWants).offset = Len(AfterWants)
        /\ \A k \in 1..Len(Wants.packets) : ~StartsWith(Wants.packets[k], have_word)

\* A request for three ids has been built: three want packets, the first
\* ending with the capability string, then the flush packet.
C17_Witness ==
    /\ qpc = "returned"
    /\ Len(want_shas) = 3
    /\ Len(Wants.packets) = 3
    /\ Wants.packets[1] = WantBytes(1)
    /\ Wants.packets[3] = want_word \o EncodeUtf8(want_shas[3]) \o line_feed

\* C18: build_clone_request fails when the list of ids is empty: it never
\* returns a request without a want line.
C18_EmptyRejected ==
    qpc = "returned" =>
        /\ want_shas # <<>>
        /\ Len(Wants.packets) >= 1
        /\ StartsWith(Wants.packets[1], want_word)

---------------------------------------------------------------------------
\* SpecClone: one call of clone() (https_transport.py:89-114,
\* ssh_transport.py:197-222) with discover_refs of either transport.

\* https_transport.py:46-47: the header looked for and the bytes skipped,
\* 4 + 26.
service_header == <<48, 48, 49, 101>>
ServiceLineLen == 26
HeaderLen == 4

\* https_transport.py:43-51: offset after the two skips.
SkipService(content) ==
    IF PySlice(content, 0, HeaderLen) = service_header THEN HeaderLen + ServiceLineLen ELSE 0
SkipFlush(content, off) ==
    IF PySlice(content, off, off + HeaderLen) = FLUSH THEN off + HeaderLen ELSE off

\* https_transport.py:54: ref_data = data[offset:].
RefData(content) == PySlice(content, SkipFlush(content, SkipService(content)), Len(content))

\* ssh_transport.py:136-139: b"0000" in buffer, then buffer cut after the
\* first b"0000".  The first one in the buffer is the first one in the
\* stream, however the stream is split into chunks.
HasFlushBytes(buffer) ==
    \E k \in 1..(Len(buffer) - 3) : SubSeq(buffer, k, k + 3) = FLUSH
FlushPos(buffer) ==
    (CHOOSE k \in 1..(Len(buffer) - 3) :
        /\ SubSeq(buffer, k, k + 3) = FLUSH
        /\ \A j \in 1..(k - 1) : SubSeq(buffer, j, j + 3) # FLUSH) - 1
SshBuffer(stream) ==
    IF HasFlushBytes(stream) THEN PySlice(stream, 0, FlushPos(stream) + 4) ELSE stream

\* The bytes git-upload-pack writes for the advertisement: one data packet
\* per line, then the flush packet.
RECURSIVE FramedLines(_, _)
FramedLines(lines, n) ==
    IF n = 0 THEN <<>> ELSE FramedLines(lines, n - 1) \o encode(lines[n])
Advertisement(lines) == FramedLines(lines, Len(lines)) \o FLUSH

\* The service announcements tried: the usual one,
\* "001e# service=git-upload-pack\n"; the same with the header in upper
\* case; and one without the line feed, "001d# service=git-upload-pack".
UsualAnnouncement ==
    <<48, 48, 49, 101, 35, 32, 115, 101, 114, 118, 105, 99, 101, 61,
      103, 105, 116, 45, 117, 112, 108, 111, 97, 100, 45, 112, 97, 99,
      107, 10>>
UpperCaseAnnouncement ==
    <<48, 48, 49, 69, 35, 32, 115, 101, 114, 118, 105, 99, 101, 61,
      103, 105, 116, 45, 117, 112, 108, 111, 97, 100, 45, 112, 97, 99,
      107, 10>>
ShortAnnouncement ==
    <<48, 48, 49, 100, 35, 32, 115, 101, 114, 118, 105, 99, 101, 61,
      103, 105, 116, 45, 117, 112, 108, 111, 97, 100, 45, 112, 97, 99,
      107>>
Announcements == {UsualAnnouncement, UpperCaseAnnouncement, ShortAnnouncement}

\* response.content of the discovery request.
Content == announcement \o FLUSH \o Advertisement(served)

\* The lines served over ssh: one with capabilities, a branch, an object id
\* that contains 0000 ("10000 refs/heads/main" and a line feed), and a line
\* that ends in 0 with no line feed ("9 refs/heads/v0"), which together with
\* the header 000b of a following 7-byte packet reads 0000.
ZeroIdLine ==
    <<49, 48, 48, 48, 48, 32, 114, 101, 102, 115, 47, 104, 101, 97, 100,
      115, 47, 109, 97, 105, 110, 10>>
EndsInZeroLine ==
    <<57, 32, 114, 101, 102, 115, 47, 104, 101, 97, 100, 115, 47, 118, 48>>
SshLines == {HeadCapsLine, HeadLine, MainLine, ZeroIdLine, EndsInZeroLine}

ServedLists ==
    UNION {[1..n -> IF c_variant = "ssh" THEN SshLines ELSE AdvLines] : n \in 0..MaxServed}

\* ssh_transport.py:130, 171: stdout.read(4096).
read_size == 4096

\* What git-upload-pack writes to its output before it reads the request.
SshStream == Advertisement(served)

\* The lengths stdout.read(size) can return when left bytes are still to
\* come: at least one byte, at most size.
ReadLens(size, left) == 1..(IF left < size THEN left ELSE size)

\* buffer += chunk, for a chunk of n bytes read at the current position of
\* the output, which is the length of the buffer.
Extended(n) == ssh_buffer \o SubSeq(SshStream, Len(ssh_buffer) + 1, Len(ssh_buffer) + n)

\* The output bytes not yet read once the request is written: the rest of
\* the advertisement and the pack_len bytes of the response.
Unread == (Len(SshStream) - Len(ssh_buffer)) + pack_len - counted

InitClone ==
    /\ OrchIdle
    /\ FetchIdle
    /\ CodecIdle
    /\ AdvIdle
    /\ RequestIdle
    /\ c_variant \in {"https", "ssh"}
    /\ announcement \in IF c_variant = "https" THEN Announcements ELSE {<<>>}
    /\ served \in ServedLists
    /\ kpc = "discover"
    /\ discovered = FALSE
    /\ c_refs = <<>>
    /\ c_capabilities = <<>>
    /\ c_default_ref = NoRef
    /\ c_request = <<>>
    /\ sent = <<>>
    /\ discoveries = 0
    /\ fetches = 0
    /\ sessions = 0
    /\ open_sessions = 0
    /\ c_error = None
    /\ ssh_buffer = <<>>
    /\ pack_len = 0
    /\ write_closed = FALSE
    /\ counted = 0

\* discover_refs has the packets: RefAdvertisement.parse(packets) is the
\* value returned, or the exception of PktLine.parse leaves clone().
DiscoverResult(result) ==
    IF result.raised
    THEN /\ kpc' = "raised"
         /\ c_error' \in NetworkMessages
         /\ UNCHANGED <<discovered, c_refs, c_capabilities>>
    ELSE /\ kpc' = "default_ref"
         /\ discovered' = TRUE
         /\ c_refs' = AdvParse(result.packets).refs
         /\ c_capabilities' = AdvParse(result.packets).capabilities
         /\ UNCHANGED c_error

\* A failed discovery is tried again.
DiscoverRetries ==
    /\ kpc = "discover"
    /\ discoveries < 3
    /\ discoveries' = discoveries + 1
    /\ UNCHANGED <<c_variant, announcement, served, kpc, discovered, c_refs,
                   c_capabilities, c_default_ref, c_request, sent, fetches,
                   sessions, open_sessions, c_error, ssh_buffer, pack_len,
                   write_closed, counted>>
    /\ UNCHANGED nonCloneVars

\* https_transport.py:36-37, ssh_transport.py:121: discover_refs raises
\* before anything is read (the request fails, the status is an error, the
\* connection fails).
DiscoverFails ==
    /\ kpc = "discover"
    /\ discoveries' = discoveries + 1
    /\ kpc' = "raised"
    /\ c_error' \in NetworkMessages
    /\ UNCHANGED <<c_variant, announcement, served, discovered, c_refs,
                   c_capabilities, c_default_ref, c_request, sent, fetches,
                   sessions, open_sessions, ssh_buffer, pack_len,
                   write_closed, counted>>
    /\ UNCHANGED nonCloneVars

\* https_transport.py:25-57: discover_refs on a response with status 200.
DiscoverHttps ==
    /\ kpc = "discover"
    /\ c_variant = "https"
    /\ discoveries' = discoveries + 1
    /\ DiscoverResult(parse(RefData(Content)))
    /\ UNCHANGED <<c_variant, announcement, served, c_default_ref, c_request,
                   sent, fetches, sessions, open_sessions, ssh_buffer,
                   pack_len, write_closed, counted>>
    /\ UNCHANGED nonCloneVars

\* ssh_transport.py:121-128: client = self._connect(); exec_command;
\* buffer = b"".
DiscoverSshConnect ==
    /\ kpc = "discover"
    /\ c_variant = "ssh"
    /\ discoveries' = discoveries + 1
    /\ sessions' = sessions + 1
    /\ open_sessions' = open_sessions + 1
    /\ ssh_buffer' = <<>>
    /\ kpc' = "ssh_read"
    /\ UNCHANGED <<c_variant, announcement, served, discovered, c_refs,
                   c_capabilities, c_default_ref, c_request, sent, fetches,
                   c_error, pack_len, write_closed, counted>>
    /\ UNCHANGED nonCloneVars

\* ssh_transport.py:130-140: one pass of the loop with a chunk that is not
\* empty: buffer += chunk; if b"0000" in buffer, the buffer is cut after the
\* first b"0000" and the loop is left.
DiscoverSshRead ==
    /\ kpc = "ssh_read"
    /\ \E n \in ReadLens(read_size, Len(SshStream) - Len(ssh_buffer)) :
          /\ ssh_buffer' = SshBuffer(Extended(n))
          /\ kpc' = IF HasFlushBytes(Extended(n)) THEN "ssh_parse" ELSE "ssh_read"
    /\ UNCHANGED <<c_variant, announcement, served, discovered, c_refs,
                   c_capabilities, c_default_ref, c_request, sent,
                   discoveries, fetches, sessions, open_sessions, c_error,
                   pack_len, write_closed, counted>>
    /\ UNCHANGED nonCloneVars

\* ssh_transport.py:131-132: the chunk is empty, the command has ended
\* before it wrote the whole advertisement: break.
DiscoverSshEof ==
    /\ kpc = "ssh_read"
    /\ Len(ssh_buffer) < Len(SshStream)
    /\ kpc' = "ssh_parse"
    /\ UNCHANGED <<c_variant, announcement, served, discovered, c_refs,
                   c_capabilities, c_default_ref, c_request, sent,
                   discoveries, fetches, sessions, open_sessions, c_error,
                   ssh_buffer, pack_len, write_closed, counted>>
    /\ UNCHANGED nonCloneVars

\* ssh_transport.py:125-133, 147-148: the command cannot be started or a
\* read raises; the connection is closed in the finally block.
DiscoverSshFails ==
    /\ kpc = "ssh_read"
    /\ kpc' = "raised"
    /\ c_error' \in NetworkMessages
    /\ open_sessions' = open_sessions - 1
    /\ ssh_buffer' = <<>>
    /\ UNCHANGED <<c_variant, announcement, served, discovered, c_refs,
                   c_capabilities, c_default_ref, c_request, sent,
                   discoveries, fetches, sessions, pack_len, write_closed,
                   counted>>
    /\ UNCHANGED nonCloneVars

\* ssh_transport.py:142-148: packets = PktLine.parse(buffer); return
\* RefAdvertisement.parse(packets); the connection is closed in the finally
\* block and the local buffer is gone with the call.
DiscoverSsh ==
    /\ kpc = "ssh_parse"
    /\ open_sessions' = open_sessions - 1
    /\ DiscoverResult(parse(ssh_buffer))
    /\ ssh_buffer' = <<>>
    /\ UNCHANGED <<c_variant, announcement, served, c_default_ref, c_request,
                   sent, discoveries, fetches, sessions, pack_len,
                   write_closed, counted>>
    /\ UNCHANGED nonCloneVars

\* clone(): default_ref = refs.default_ref(); if not default_ref: raise
\* Exception("No refs found in repository").
SelectRef ==
    /\ kpc = "default_ref"
    /\ c_default_ref' = default_ref(c_refs)
    /\ IF default_ref(c_refs) = NoRef
       THEN kpc' = "raised" /\ c_error' = NoRefsMessage
       ELSE kpc' = "build" /\ UNCHANGED c_error
    /\ UNCHANGED <<c_variant, announcement, served, discovered, c_refs,
                   c_capabilities, c_request, sent, discoveries, fetches,
                   sessions, open_sessions, ssh_buffer, pack_len,
                   write_closed, counted>>
    /\ UNCHANGED nonCloneVars

\* clone(): ref_name, sha = default_ref; request = build_clone_request([sha]).
BuildCloneRequest ==
    /\ kpc = "build"
    /\ c_request' = build_clone_request(<<c_default_ref[2]>>)
    /\ kpc' = "upload"
    /\ UNCHANGED <<c_variant, announcement, served, discovered, c_refs,
                   c_capabilities, c_default_ref, sent, discoveries, fetches,
                   sessions, open_sessions, c_error, ssh_buffer, pack_len,
                   write_closed, counted>>
    /\ UNCHANGED nonCloneVars

\* upload_pack(request) raises before the request has reached the server
\* (https_transport.py:73-79: the post fails; ssh_transport.py:162: the
\* connection fails).
UploadFailsEarly ==
    /\ kpc = "upload"
    /\ fetches' = fetches + 1
    /\ kpc' = "raised"
    /\ c_error' \in NetworkMessages
    /\ UNCHANGED <<c_variant, announcement, served, discovered, c_refs,
                   c_capabilities, c_default_ref, c_request, sent, discoveries,
                   sessions, open_sessions, ssh_buffer, pack_len,
                   write_closed, counted>>
    /\ UNCHANGED nonCloneVars

\* https_transport.py:73-79: session.post(url, data=request, stream=True).
UploadSend ==
    /\ kpc = "upload"
    /\ c_variant = "https"
    /\ fetches' = fetches + 1
    /\ sent' = Append(sent, c_request)
    /\ kpc' = "uploading"
    /\ UNCHANGED <<c_variant, announcement, served, discovered, c_refs,
                   c_capabilities, c_default_ref, c_request, discoveries,
                   sessions, open_sessions, c_error, ssh_buffer, pack_len,
                   write_closed, counted>>
    /\ UNCHANGED nonCloneVars

\* ssh_transport.py:162-169: client = self._connect(); exec_command;
\* buffer = b"".
UploadSshConnect ==
    /\ kpc = "upload"
    /\ c_variant = "ssh"
    /\ fetches' = fetches + 1
    /\ sessions' = sessions + 1
    /\ open_sessions' = open_sessions + 1
    /\ ssh_buffer' = <<>>
    /\ kpc' = "adv_read"
    /\ UNCHANGED <<c_variant, announcement, served, discovered, c_refs,
                   c_capabilities, c_default_ref, c_request, sent,
                   discoveries, c_error, pack_len, write_closed, counted>>
    /\ UNCHANGED nonCloneVars

\* ssh_transport.py:170-176: one pass of the loop that reads and discards
\* the advertisement, with a chunk that is not empty: buffer += chunk;
\* if b"0000" in buffer: break.
UploadSshReadAdv ==
    /\ kpc = "adv_read"
    /\ \E n \in ReadLens(read_size, Len(SshStream) - Len(ssh_buffer)) :
          /\ ssh_buffer' = Extended(n)
          /\ kpc' = IF HasFlushBytes(Extended(n)) THEN "write" ELSE "adv_read"
    /\ UNCHANGED <<c_variant, announcement, served, discovered, c_refs,
                   c_capabilities, c_default_ref, c_request, sent,
                   discoveries, fetches, sessions, open_sessions, c_error,
                   pack_len, write_closed, counted>>
    /\ UNCHANGED nonCloneVars

\* ssh_transport.py:172-173: the chunk is empty, the output has ended: break.
UploadSshAdvEof ==
    /\ kpc = "adv_read"
    /\ Len(ssh_buffer) < Len(SshStream)
    /\ kpc' = "write"
    /\ UNCHANGED <<c_variant, announcement, served, discovered, c_refs,
                   c_capabilities, c_default_ref, c_request, sent,
                   discoveries, fetches, sessions, open_sessions, c_error,
                   ssh_buffer, pack_len, write_closed, counted>>
    /\ UNCHANGED nonCloneVars

\* The longest chunk stdout.read(size) returns when left bytes are unread.
LongestRead(size, left) == IF left < size THEN left ELSE size

\* The lengths of the command's answer tried: one byte, and one byte more
\* than a read returns at most.
PackLens == {1, chunk_size + 1}

\* ssh_transport.py:179-180: stdin.write(request); stdin.flush().  The
\* command answers with pack_len bytes.
UploadSshWrite ==
    /\ kpc = "write"
    /\ sent' = Append(sent, c_request)
    /\ pack_len' \in PackLens
    /\ kpc' = "shutdown_write"
    /\ UNCHANGED <<c_variant, announcement, served, discovered, c_refs,
                   c_capabilities, c_default_ref, c_request, discoveries,
                   fetches, sessions, open_sessions, c_error, ssh_buffer,
                   write_closed, counted>>
    /\ UNCHANGED nonCloneVars

\* ssh_transport.py:181-184: stdin.channel.shutdown_write(); total_bytes = 0.
UploadSshShutdownWrite ==
    /\ kpc = "shutdown_write"
    /\ write_closed' = TRUE
    /\ counted' = 0
    /\ kpc' = "uploading"
    /\ UNCHANGED <<c_variant, announcement, served, discovered, c_refs,
                   c_capabilities, c_default_ref, c_request, sent,
                   discoveries, fetches, sessions, open_sessions, c_error,
                   ssh_buffer, pack_len>>
    /\ UNCHANGED nonCloneVars

\* ssh_transport.py:186-189: chunk = stdout.read(8192);
\* total_bytes += len(chunk).  The chunks tried are the longest the read can
\* return and, as the first chunk, a single byte.
UploadSshCount ==
    /\ kpc = "uploading"
    /\ c_variant = "ssh"
    /\ Unread > 0
    /\ \E n \in {1, LongestRead(chunk_size, Unread)} :
          /\ n < LongestRead(chunk_size, Unread) => counted = 0
          /\ counted' = counted + n
    /\ UNCHANGED <<c_variant, announcement, served, kpc, discovered, c_refs,
                   c_capabilities, c_default_ref, c_request, sent,
                   discoveries, fetches, sessions, open_sessions, c_error,
                   ssh_buffer, pack_len, write_closed>>
    /\ UNCHANGED nonCloneVars

\* upload_pack returns total_bytes once the response is exhausted, and
\* clone() returns it (https_transport.py:81-87, 111-114;
\* ssh_transport.py:187-195, 220-222); the ssh connection is closed in the
\* finally block.
UploadReturns ==
    /\ kpc = "uploading"
    /\ c_variant = "ssh" => Unread = 0
    /\ kpc' = "returned"
    /\ open_sessions' = IF c_variant = "ssh" THEN open_sessions - 1 ELSE open_sessions
    /\ UNCHANGED <<c_variant, announcement, served, discovered, c_refs,
                   c_capabilities, c_default_ref, c_request, sent, discoveries,
                   fetches, sessions, c_error, ssh_buffer, pack_len,
                   write_closed, counted>>
    /\ UNCHANGED nonCloneVars

\* upload_pack raises after the connection was opened or the request
\* posted; the ssh connection is closed in the finally block
\* (ssh_transport.py:194-195).
UploadFailsLate ==
    /\ kpc \in {"adv_read", "write", "shutdown_write", "uploading"}
    /\ kpc' = "raised"
    /\ c_error' \in NetworkMessages
    /\ open_sessions' = IF c_variant = "ssh" THEN open_sessions - 1 ELSE open_sessions
    /\ ssh_buffer' = <<>>
    /\ UNCHANGED <<c_variant, announcement, served, discovered, c_refs,
                   c_capabilities, c_default_ref, c_request, sent, discoveries,
                   fetches, sessions, pack_len, write_closed, counted>>
    /\ UNCHANGED nonCloneVars

NextClone ==
    \/ DiscoverFails
    \/ DiscoverHttps
    \/ DiscoverSshConnect
    \/ DiscoverSshRead
    \/ DiscoverSshEof
    \/ DiscoverSshFails
    \/ DiscoverSsh
    \/ SelectRef
    \/ BuildCloneRequest
    \/ UploadFailsEarly
    \/ UploadSend
    \/ UploadSshConnect
    \/ UploadSshReadAdv
    \/ UploadSshAdvEof
    \/ UploadSshWrite
    \/ UploadSshShutdownWrite
    \/ UploadSshCount
    \/ UploadReturns
    \/ UploadFailsLate

SpecClone == InitClone /\ [][NextClone]_vars

\* clone() has ended.
CloneEnded == kpc \in {"returned", "raised"}

\* discover_refs has not been left yet.
Discovering == kpc \in {"discover", "ssh_read", "ssh_parse"}

\* The one want line of a request for the object id of the default ref.
OneWant == want_word \o EncodeUtf8(c_default_ref[2]) \o blank \o client_capabilities \o line_feed

\* C19: clone step ordering, for both transports.  discover_refs is called
\* exactly once in a clone and upload_pack at most once; upload_pack is
\* called only after discover_refs has returned and a default ref was
\* selected, with a request of exactly one want line, for the id of that ref,
\* and no other request reaches the server; when discovery fails or no
\* default ref is eligible, clone() ends with an error, upload_pack is not
\* called, no request is sent, and nothing is tried again.
C19_CloneOrdering ==
    /\ discoveries <= 1
    /\ fetches <= 1
    /\ kpc # "discover" => discoveries = 1
    /\ Len(sent) <= fetches
    /\ fetches = 1 =>
          /\ discovered
          /\ c_default_ref # NoRef
          /\ c_default_ref = default_ref(c_refs)
          /\ ~parse(c_request).raised
          /\ parse(c_request).packets = <<OneWant>>
          /\ \A k \in 1..Len(sent) : sent[k] = c_request
    /\ (~Discovering /\ ~discovered) =>
          kpc = "raised" /\ c_error # None /\ fetches = 0 /\ sent = <<>>
    /\ (discovered /\ kpc # "default_ref" /\ c_default_ref = NoRef) =>
          kpc = "raised" /\ c_error = NoRefsMessage /\ fetches = 0 /\ sent = <<>>
    /\ kpc = "returned" => (fetches = 1 /\ Len(sent) = 1)

\* A clone over ssh has returned: one discovery, then one fetch whose
\* request reached the server, on two connections.
C19_Witness ==
    /\ kpc = "returned"
    /\ c_variant = "ssh"
    /\ discoveries = 1
    /\ fetches = 1
    /\ sessions = 2
    /\ sent = <<c_request>>
    /\ parse(c_request).packets = <<OneWant>>

\* C20: stream-variant discovery.  For a response made of a service
\* announcement packet, a flush packet and the framed advertisement,
\* discover_refs of the https transport returns the refs and capabilities of
\* the advertisement, whatever the length of the announcement packet and
\* whatever the letter case of its length header.
C20_AnnouncementSkipped ==
    (c_variant = "https" /\ discovered) =>
        /\ c_refs = AdvParse(served).refs
        /\ c_capabilities = AdvParse(served).capabilities

\* C21: command-channel discovery agrees with proper framing.  When the
\* command has written a framed advertisement that ends with a flush packet,
\* discover_refs of the ssh transport returns the refs and capabilities of
\* the packets PktLine.parse finds in the whole advertisement up to its flush
\* packet, however the output is split into chunks and whatever bytes the
\* payloads hold (0000 among them).
C21_DiscoveryFraming ==
    [][(kpc = "ssh_parse" /\ HasFlushBytes(ssh_buffer) /\ discovered') =>
          /\ c_refs' = AdvParse(parse(SshStream).packets).refs
          /\ c_capabilities' = AdvParse(parse(SshStream).packets).capabilities]_vars

\* The flush packet of the advertisement has been read: it is the last four
\* bytes of what the command writes before it reads the request, and the
\* only flush packet there.
FlushMarkerRead == Len(ssh_buffer) = Len(SshStream)

\* The loop that reads the advertisement was left on an empty chunk.
OutputEnded == ~HasFlushBytes(ssh_buffer)

\* Positions of clone() inside discover_refs or upload_pack of the ssh
\* transport, between _connect() and client.close().
InSession == kpc \in {"ssh_read", "ssh_parse", "adv_read", "write", "shutdown_write", "uploading"}

\* C22: command-channel session protocol.  In upload_pack of the ssh
\* transport the request is written only after the advertisement has been
\* read up to its flush packet or the output has ended; the write side is
\* shut down after the request is written and before a response chunk is
\* counted; the bytes of the advertisement buffer are not counted and the
\* count returned is that of the bytes read after the shutdown; a connection
\* is open only inside discover_refs or upload_pack; a clone that returns has
\* opened exactly two connections, no clone opens more, and two are never
\* open at once.
C22_SessionProtocol ==
    c_variant = "ssh" =>
        /\ (fetches = 1 /\ sent # <<>>) => (FlushMarkerRead \/ OutputEnded)
        /\ write_closed => sent # <<>>
        /\ counted > 0 => write_closed
        /\ kpc = "returned" => counted = (Len(SshStream) - Len(ssh_buffer)) + pack_len
        /\ open_sessions = (IF InSession THEN 1 ELSE 0)
        /\ sessions <= 2
        /\ kpc = "returned" => sessions = 2


---------------------------------------------------------------------------
\* FairSpec: the orchestrator when no KeyboardInterrupt is delivered, under
\* fair scheduling of its threads.  Every thread that can take a step
\* eventually takes one (WF).  A thread blocked in progress_lock.acquire()
\* gets the lock if the lock is free again and again (SF): the renderer
\* sleeps 0.5 s outside its with block between two acquisitions
\* (main.py:30, 52) and the workers hold the lock for one assignment.  The
\* read loop of a clone is finite (ReadChunk), so every clone returns or
\* raises.
MainUninterrupted ==
    \/ StartRun
    \/ Submit
    \/ \E f \in Ids : ProcessResult(f)
    \/ AwaitDone
    \/ Finally
    \/ StopProgress
    \/ ClearAcquire
    \/ ClearLines
    \/ Report

NextUninterrupted == MainUninterrupted \/ Renderer \/ \E i \in Ids : Worker(i)

Fairness ==
    /\ WF_vars(MainUninterrupted)
    /\ WF_vars(Renderer)
    /\ \A i \in Ids : WF_vars(Worker(i)) /\ SF_vars(WorkerAcquire(i))

FairSpec == Init /\ [][NextUninterrupted]_vars /\ Fairness

\* Every one of the count outcomes was handled by the loop of main().
AllProcessed == \A f \in 1..count : processed[f] = 1

\* The renderer has left its loop: once it has, it stays so, it has seen
\* the stop flag set, and it holds no lock and draws nothing.
RendererEnds ==
    [][rpc = "ended" => (rpc' = "ended" /\ progress_stop /\ RendererThread \notin progress_lock)]_vars

\* C23 as stated: without an interrupt and under fair scheduling the
\* orchestrator eventually has processed all count outcomes, shut the pool
\* down, set the renderer stop flag and reached the final report, with the
\* progress display enabled or disabled; the renderer, once it has observed
\* the flag, has ended and renders no more.
C23_AsStated ==
    /\ <>(AllProcessed /\ shutdown_called /\ progress_stop /\ summary_printed)
    /\ RendererEnds

\* C23, amended: the stop flag is set when the progress display is enabled;
\* with the display disabled there is no renderer and the flag stays unset.
\* The final state is stable: the outcomes stay processed, the pool shut
\* down and the report printed.
C23_Termination ==
    /\ <>[](/\ AllProcessed
            /\ shutdown_called
            /\ progress_stop = progress_enabled
            /\ summary_printed
            /\ pc \in {"done", "crashed"})
    /\ RendererEnds

\* An uninterrupted run with the display enabled has ended: every clone was
\* processed, one failed and one succeeded, the flag is set, the renderer
\* has observed it and ended, the report is printed.
C23_Witness ==
    /\ pc = "done"
    /\ progress_enabled
    /\ count = MaxCount
    /\ AllProcessed
    /\ shutdown_called
    /\ progress_stop
    /\ rpc = "ended"
    /\ summary_printed
    /\ failed > 0
    /\ successful > 0


---------------------------------------------------------------------------
\* SpecScan: the loop of PktLine.parse (protocol.py:30-53) one iteration at
\* a time, on buffers of any bytes, with its locals offset and packets.

MaxScanFields == 3
MaxScanPackets == 5

\* The four-byte pieces the buffers are made of: 0000, 0002, 0003, 0004,
\* 0008, -004, -008 (int() accepts a sign), zzzz (ValueError) and a piece
\* with a byte that is not ASCII (UnicodeDecodeError).
ScanFields ==
    {<<48, 48, 48, 48>>, <<48, 48, 48, 50>>, <<48, 48, 48, 51>>,
     <<48, 48, 48, 52>>, <<48, 48, 48, 56>>, <<45, 48, 48, 52>>,
     <<45, 48, 48, 56>>, <<122, 122, 122, 122>>, <<255, 48, 48, 48>>}

RECURSIVE Joined(_, _)
Joined(fields, n) == IF n = 0 THEN <<>> ELSE Joined(fields, n - 1) \o fields[n]

\* The buffers tried: up to MaxScanFields pieces, less up to three bytes at
\* the end.
ScanBuffers ==
    {PySlice(Joined(fields, Len(fields)), 0, Len(fields) * HexWidth - less) :
        fields \in UNION {[1..n -> ScanFields] : n \in 0..MaxScanFields},
        less \in 0..(HexWidth - 1)}

InitScan ==
    /\ OrchIdle
    /\ FetchIdle
    /\ AdvIdle
    /\ RequestIdle
    /\ CloneIdle
    /\ payload = <<>>
    /\ frames = <<>>
    /\ cut = 0
    /\ data \in ScanBuffers
    /\ cpc = "scan"
    /\ offset = 0
    /\ packets = <<>>

\* protocol.py:33-35: the loop goes on: offset < len(data) and not
\* offset + 4 > len(data).
InLoop == cpc = "scan" /\ offset < Len(data) /\ ~(offset + HexWidth > Len(data))

\* protocol.py:37: data[offset:offset + 4].
LengthField == PySlice(data, offset, offset + HexWidth)

\* protocol.py:37-38: the field can be decoded and int(length_str, 16)
\* returns; its value.
LengthRead == IsAscii(LengthField) /\ IntBase16(LengthField).ok
LengthValue == IntBase16(LengthField).value

\* protocol.py:33-35, 53: the loop test fails or fewer than four bytes are
\* left: return packets.
ScanEnd ==
    /\ cpc = "scan"
    /\ ~InLoop
    /\ cpc' = "returned"
    /\ UNCHANGED <<payload, data, offset, packets, frames, cut>>
    /\ UNCHANGED nonCodecVars

\* protocol.py:37-38: decode or int raises.
ScanRaise ==
    /\ InLoop
    /\ ~LengthRead
    /\ cpc' = "raised"
    /\ UNCHANGED <<payload, data, offset, packets, frames, cut>>
    /\ UNCHANGED nonCodecVars

\* protocol.py:40-42: length == 0: offset += 4; break.
ScanFlush ==
    /\ InLoop
    /\ LengthRead
    /\ LengthValue = 0
    /\ offset' = offset + HexWidth
    /\ cpc' = "returned"
    /\ UNCHANGED <<payload, data, packets, frames, cut>>
    /\ UNCHANGED nonCodecVars

\* protocol.py:43-45: length == 1 or length == 2: offset += 4; continue.
ScanMarker ==
    /\ InLoop
    /\ LengthRead
    /\ LengthValue \in {1, 2}
    /\ offset' = offset + HexWidth
    /\ UNCHANGED <<payload, cpc, data, packets, frames, cut>>
    /\ UNCHANGED nonCodecVars

\* protocol.py:47-48: if offset + length > len(data): break.
ScanTruncated ==
    /\ InLoop
    /\ LengthRead
    /\ LengthValue \notin {0, 1, 2}
    /\ offset + LengthValue > Len(data)
    /\ cpc' = "returned"
    /\ UNCHANGED <<payload, data, offset, packets, frames, cut>>
    /\ UNCHANGED nonCodecVars

\* protocol.py:49-51: packets.append(data[offset + 4:offset + length]);
\* offset += length.
ScanPacket ==
    /\ InLoop
    /\ LengthRead
    /\ LengthValue \notin {0, 1, 2}
    /\ ~(offset + LengthValue > Len(data))
    /\ Len(packets) < MaxScanPackets
    /\ packets' = Append(packets, PySlice(data, offset + HexWidth, offset + LengthValue))
    /\ offset' = offset + LengthValue
    /\ UNCHANGED <<payload, cpc, data, frames, cut>>
    /\ UNCHANGED nonCodecVars

NextScan ==
    \/ ScanEnd
    \/ ScanRaise
    \/ ScanFlush
    \/ ScanMarker
    \/ ScanTruncated
    \/ ScanPacket

SpecScan == InitScan /\ [][NextScan]_vars

\* C24: scanner progress.  In every iteration of the loop of PktLine.parse
\* the offset does not move backwards and does not pass the end of the
\* buffer; in an iteration after which the scan goes on, the offset grows,
\* by 4 for a control marker and by the length value for a data packet.
\* (With the offset growing in every iteration that goes on, the scan of a
\* finite buffer ends.)
C24_ScannerProgress ==
    [][cpc = "scan" =>
          /\ offset' >= offset
          /\ offset' <= Len(data)
          /\ cpc' = "scan" =>
                /\ offset' > offset
                /\ offset' - offset = (IF LengthValue \in {1, 2} THEN HexWidth ELSE LengthValue)]_vars

=============================================================================
